---- MODULE Spec2Model ----
(***************************************************************************)
(* EasyRead background coordinator (src/src/background.js) with its        *)
(* storage layer (src/unnamed/part_004, the extension's lib/storage.js and *)
(* lib/simplicity.js) and response parser (src/src/lib/schema.js:1-117).   *)
(*                                                                         *)
(* Modelling conventions                                                   *)
(*  - One action is one run-to-completion step of the service worker's     *)
(*    event loop: everything the code does between two suspension points.  *)
(*  - chrome.storage.local operations are served in issue order: storageQ  *)
(*    holds the processes whose storage call is pending, and only its head *)
(*    can complete.  fetch(), crypto.subtle.digest() and tabs.sendMessage  *)
(*    complete in any order.                                               *)
(*  - Texts are abstracted to classes: a selection is a named text with    *)
(*    its length, its candidate count and whether one of its keywords is   *)
(*    in EASY_WORD_REPLACEMENTS; a generated text is its kind plus whether *)
(*    it still holds a word of that table.  Confidence is in hundredths.   *)
(*  - FAST_SINGLE_CALL_MAX_CHARS is 0 in background.js (the fast path is   *)
(*    dead there) and 320 in the earlier revision kept in                  *)
(*    src/src/lib/schema.js:883; fastMax is fixed to one of the two in the *)
(*    initial state and the handler modelled is the one of background.js.  *)
(***************************************************************************)
EXTENDS Integers, Sequences, FiniteSets, TLC

\* ------------------------------------------------------------- bounds
MaxRequests == 2
MaxClears == 1
MaxTicks == 1
MaxClients == 2
MaxStoreOps == 4
MaxPlan == 5
MaxTextLen == 5
MaxTarget == 3
MaxChunkCap == 3
LengthSpan == 8
MaxItems == 4
MaxUpdates == 2
MaxAdvances == 3
MaxLimit == 3
MaxConns == 2
MaxWaits == 3
MaxArrivals == 5
MaxWindowMax == 2
MaxDayMax == 3
MaxKeyTextLen == 2
MaxSaves == 1
MaxMergeLen == 3

Req == 1..MaxRequests

\* ------------------------------------------------- program constants
HARD_MAX_CHARS == 12000
MODEL_NANO_MAX_CHARS == 1200
FAST_SINGLE_CALL_MAX_CHARS == 0
FAST_SINGLE_CALL_MAX_CHARS_320 == 320
MAX_EXPLAIN_ATTEMPTS == 2
CHUNK_THRESHOLD_CHARS == 4500
MAX_CHUNK_CONCURRENCY == 2
FALLBACK_CONFIDENCE == 20
BACKUP_CONFIDENCE_CAP == 35
DEFAULT_CONFIDENCE == 50
SUPPLEMENTAL_MIN_CHARS == 40
SUPPLEMENTAL_MANY_CANDIDATES == 10
CACHE_TTL_MS == 7 * 24 * 60 * 60 * 1000
RATE_LIMIT_WINDOW_MS == 60000

MODEL_SHORT_TEXT == "gpt-5-nano"
MODEL_LONG_TEXT == "gpt-5-mini"
MODEL_VERSION == "easyread-mvp-2026-02"
EXPLANATION_MODES == {"simple", "balanced", "detailed"}
DEFAULT_EXPLANATION_MODE == "balanced"
B2_PLUS_LEVELS == {"B2", "C1", "C2"}
CEFR_VALUES == {"A2", "B1", "B2", "C1", "C2", "unknown"}

NoTab == "notab"
NoId == ""
None == "none"
\* A confidence that is missing or not a number (typeof value !== "number").
NotANumber == 0 - 1000
IsNumber(value) == value # NotANumber

\* ------------------------------------------------------ text classes
\* A generated text: kind "none" is the empty string.  hard: the text
\* holds a key of EASY_WORD_REPLACEMENTS; rare: it holds a word that is
\* neither a key of that table nor a word of the A1/A2 lexicon.
Text(kind, hard, rare) == [kind |-> kind, hard |-> hard, rare |-> rare]
NoText == Text("none", FALSE, FALSE)
ModelText(h) == Text("model", h, h)
CopyText(h) == Text("copy", h, h)
FallbackText(h) == Text("fallback", h, h)

\* The selections of the model: trimmed text -> length, number of
\* extractA2PlusCandidates results, a table word among its keywords.
SelInfo ==
  [ empty |-> [len |-> 0, cands |-> 0, hard |-> FALSE],
    plain |-> [len |-> 30, cands |-> 0, hard |-> FALSE],
    short |-> [len |-> 320, cands |-> 2, hard |-> TRUE],
    long |-> [len |-> 1201, cands |-> 1, hard |-> FALSE],
    max |-> [len |-> 12000, cands |-> 0, hard |-> FALSE],
    over |-> [len |-> 12001, cands |-> 12, hard |-> FALSE] ]

Selections == DOMAIN SelInfo
LenOf(text) == SelInfo[text].len

\* extractA2PlusCandidates(selectedText, A1_A2_WORD_SET, MAX_A2_CANDIDATES):
\* the lexicon lookup is opaque; the count is an attribute of the text.
ExtractA2PlusCandidates(text) == SelInfo[text].cands

\* ------------------------------------------- lib/schema.js (parser)
\* Model output bodies.  RawEmpty is output with no text, RawBad a text
\* that neither JSON.parse nor extractJsonObject can read; every other
\* raw text is the JSON object it holds.
NoBody == [simple_explanation |-> NoText, a2_plus_words |-> <<>>, notes |-> <<>>,
           confidence |-> NotANumber]
RawEmpty == [kind |-> "empty", body |-> NoBody]
RawBad == [kind |-> "bad", body |-> NoBody]
RawJson(body) == [kind |-> "json", body |-> body]

WordGood == [word |-> "ubiquitous", cefr |-> "b2", definition_simple |-> ModelText(TRUE),
             example_simple |-> ModelText(FALSE)]
WordEasy == [word |-> "has", cefr |-> "b1", definition_simple |-> ModelText(FALSE),
             example_simple |-> ModelText(FALSE)]
WordNoDef == [word |-> "serendipity", cefr |-> "B2", definition_simple |-> NoText,
              example_simple |-> ModelText(FALSE)]
WordNoName == [word |-> "", cefr |-> "C2", definition_simple |-> ModelText(FALSE),
               example_simple |-> ModelText(FALSE)]

BodyGood == [simple_explanation |-> ModelText(TRUE), a2_plus_words |-> <<WordGood, WordEasy>>,
             notes |-> <<"model_hard">>, confidence |-> 90]
BodyNoExplanation == [simple_explanation |-> NoText, a2_plus_words |-> <<WordNoDef, WordNoName>>,
                      notes |-> <<>>, confidence |-> NotANumber]
BodyCopy == [simple_explanation |-> CopyText(FALSE), a2_plus_words |-> <<>>,
             notes |-> <<>>, confidence |-> 150]

JsonBodies == {BodyGood, BodyNoExplanation, BodyCopy}
RawTexts == {RawEmpty, RawBad} \cup {RawJson(b) : b \in JsonBodies}

clampConfidence(value) ==
  IF ~IsNumber(value) THEN DEFAULT_CONFIDENCE
  ELSE IF value < 0 THEN 0 ELSE IF value > 100 THEN 100 ELSE value

ToUpper(cefr) ==
  CASE cefr = "b1" -> "B1" [] cefr = "b2" -> "B2" [] OTHER -> cefr

normalizeCefr(value) ==
  IF ToUpper(value) \in CEFR_VALUES THEN ToUpper(value) ELSE "unknown"

RECURSIVE normalizeWordEntries(_)
normalizeWordEntries(items) ==
  IF items = <<>> THEN <<>>
  ELSE LET item == Head(items)
           rest == normalizeWordEntries(Tail(items))
       IN IF item.word = "" THEN rest
          ELSE <<[item EXCEPT !.cefr = normalizeCefr(item.cefr)]>> \o rest

CanParse(rawText) == rawText.kind = "json"

parseAndNormalizeResponse(rawText) ==
  [simple_explanation |-> rawText.body.simple_explanation,
   a2_plus_words |-> normalizeWordEntries(rawText.body.a2_plus_words),
   notes |-> rawText.body.notes,
   confidence |-> clampConfidence(rawText.body.confidence)]

parseAndNormalizeWordCoverage(rawText) == normalizeWordEntries(rawText.body.a2_plus_words)

\* ------------------------------------ background.js (result helpers)
hasText(value) == value.kind # "none"

isOutputUsable(result) == hasText(result.simple_explanation)

appendNote(base, addition) == base \o addition

isB2PlusWordEntry(item) ==
  /\ ToUpper(item.cefr) \in B2_PLUS_LEVELS
  /\ hasText(item.definition_simple)
  /\ hasText(item.example_simple)

\* Every entry kept.
keepB2PlusWords_All(entries) == entries

keepB2PlusWords(entries) == SelectSeq(entries, isB2PlusWordEntry)

applyEasyWordReplacements(text) ==
  IF hasText(text) THEN [text EXCEPT !.hard = FALSE] ELSE text

\* A local fallback explanation without text.
buildLocalFallbackExplanation_Empty(selectedText) == NoText

buildLocalFallbackExplanation(selectedText) ==
  IF selectedText \in Selections
  THEN FallbackText(SelInfo[selectedText].hard)
  ELSE FallbackText(FALSE)

simplifyToEasyText(text, selectedText) ==
  IF ~hasText(text) THEN NoText
  ELSE LET simplified == applyEasyWordReplacements(text)
       IN IF ~hasText(simplified)
          THEN (IF selectedText # "" THEN buildLocalFallbackExplanation(selectedText) ELSE NoText)
          ELSE simplified

\* Notes are sequences of sentences.  "fallback_raw" is any of the notes
\* passed to buildLocalFallbackResult that contain "fallback" or "cut off";
\* "stopped" is "EasyRead stopped after multiple retries ...", which holds
\* none of the matched words; "nowords_raw" is "No words above B1 were detected ...".
NoteIsProblem(s) == s \in {"fallback_raw", "problem"}
NoteSentence(s) == IF s = "model_hard" THEN "model" ELSE s

simplifyNoteText(note) ==
  IF note = <<>> THEN <<>>
  ELSE IF \E i \in DOMAIN note : NoteIsProblem(note[i]) THEN <<"problem">>
  ELSE IF \E i \in DOMAIN note : note[i] = "nowords_raw" THEN <<"nowords">>
  ELSE [i \in DOMAIN note |-> NoteSentence(note[i])]

\* A fallback result with the parser's default confidence.
buildLocalFallbackResult_Default(selectedText, fallbackNote) ==
  [simple_explanation |-> buildLocalFallbackExplanation(selectedText),
   a2_plus_words |-> <<>>,
   notes |-> simplifyNoteText(fallbackNote),
   confidence |-> DEFAULT_CONFIDENCE]

buildLocalFallbackResult(selectedText, fallbackNote) ==
  [simple_explanation |-> buildLocalFallbackExplanation(selectedText),
   a2_plus_words |-> <<>>,
   notes |-> simplifyNoteText(fallbackNote),
   confidence |-> FALLBACK_CONFIDENCE]

\* A result that is null or undefined (sharedWork?.result of a work that
\* carries none).
NoResult == NoBody

Min(a, b) == IF a < b THEN a ELSE b

ensureNonEmptyExplanation(result, selectedText, fallbackNote) ==
  IF hasText(result.simple_explanation) THEN result
  ELSE [simple_explanation |-> buildLocalFallbackExplanation(selectedText),
        a2_plus_words |-> result.a2_plus_words,
        notes |-> appendNote(result.notes, fallbackNote),
        confidence |-> IF ~IsNumber(result.confidence) THEN BACKUP_CONFIDENCE_CAP
                       ELSE Min(result.confidence, BACKUP_CONFIDENCE_CAP)]

EasyWord(item) ==
  [item EXCEPT
     !.definition_simple =
        IF hasText(simplifyToEasyText(item.definition_simple, ""))
        THEN simplifyToEasyText(item.definition_simple, "") ELSE ModelText(FALSE),
     !.example_simple =
        IF hasText(simplifyToEasyText(item.example_simple, ""))
        THEN simplifyToEasyText(item.example_simple, "") ELSE ModelText(FALSE)]

enforceEasyLanguage(result, selectedText) ==
  [simple_explanation |-> simplifyToEasyText(result.simple_explanation, selectedText),
   a2_plus_words |-> [i \in DOMAIN result.a2_plus_words |-> EasyWord(result.a2_plus_words[i])],
   notes |-> simplifyNoteText(result.notes),
   confidence |-> IF IsNumber(result.confidence) THEN result.confidence ELSE DEFAULT_CONFIDENCE]

\* ------------------------------------------------ lib/simplicity.js
\* findHardWords(text, A1_A2_WORD_SET): the classes of difficult words
\* found.  The lexicon file is not part of the sources at hand: the keys
\* of EASY_WORD_REPLACEMENTS are taken to be outside it and the phrases
\* that replace them inside it.
findHardWords(text) ==
  IF ~hasText(text) THEN {}
  ELSE (IF text.hard THEN {"table"} ELSE {}) \cup (IF text.rare THEN {"rare"} ELSE {})

collectHardWordsFromResponse(response) ==
  UNION ({findHardWords(response.simple_explanation)}
           \cup {findHardWords(response.a2_plus_words[i].definition_simple) :
                   i \in DOMAIN response.a2_plus_words}
           \cup {findHardWords(response.a2_plus_words[i].example_simple) :
                   i \in DOMAIN response.a2_plus_words})

isSimpleEnough(response) ==
  [isValid |-> collectHardWordsFromResponse(response) = {},
   hardWords |-> collectHardWordsFromResponse(response)]

\* -------------------------------------- background.js (request setup)
normalizeSelection(raw) == raw.text

normalizeExplanationMode(mode) ==
  IF mode \in EXPLANATION_MODES THEN mode ELSE DEFAULT_EXPLANATION_MODE

\* The threshold taken with >= for >.
chooseModelForText_OffByOne(textLength) ==
  IF textLength >= MODEL_NANO_MAX_CHARS THEN MODEL_LONG_TEXT ELSE MODEL_SHORT_TEXT

chooseModelForText(textLength) ==
  IF textLength > MODEL_NANO_MAX_CHARS THEN MODEL_LONG_TEXT ELSE MODEL_SHORT_TEXT

getPageOrigin(payload) == payload.pageOrigin

\* buildCacheKey joins the parts with "||" and hashes them; SHA-256 is
\* taken as injective, so the key is the joined sequence.
buildCacheKey(parts) ==
  <<parts.pageOrigin, "||", parts.selectedText, "||", parts.explanationMode, "||",
    parts.model, "||", parts.modelVersion>>

\* Errors.  easyRead: an EasyReadError (its message reaches the user);
\* recoverableText: the message holds "model returned no text" or
\* "max_output_tokens"; actual and max are the numbers a message cites.
Error(code, easyRead, recoverableText) ==
  [code |-> code, easyRead |-> easyRead, recoverableText |-> recoverableText,
   actual |-> NotANumber, max |-> NotANumber]

ErrNoSelection == Error("NO_SELECTION", TRUE, FALSE)
ErrTooLong(length) ==
  [Error("SELECTION_TOO_LONG", TRUE, FALSE) EXCEPT !.actual = length, !.max = HARD_MAX_CHARS]
ErrEmptyResult == Error("EMPTY_RESULT", TRUE, FALSE)
ErrStorage == Error("STORAGE", FALSE, FALSE)

isRecoverableModelOutputError(error) ==
  \/ error.code \in {"EMPTY_OUTPUT", "BAD_JSON"}
  \/ error.recoverableText

GenericMessage == [text |-> "EasyRead failed. Please try again.", actual |-> NotANumber,
                   max |-> NotANumber]

toUserErrorMessage(error) ==
  IF error.easyRead
  THEN [text |-> error.code, actual |-> error.actual, max |-> error.max]
  ELSE GenericMessage


\* The test without the length of the selection.
shouldRunSupplementalWordPass_AnyLength(currentWords, candidateCount, selectedTextLength) ==
  IF candidateCount <= 0 THEN FALSE
  ELSE IF Len(currentWords) = 0 THEN TRUE
  ELSE candidateCount >= SUPPLEMENTAL_MANY_CANDIDATES /\ Len(currentWords) <= 1

\* shouldRunSupplementalWordPass (background.js:1000-1011)
shouldRunSupplementalWordPass(currentWords, candidateCount, selectedTextLength) ==
  IF candidateCount <= 0 \/ selectedTextLength < SUPPLEMENTAL_MIN_CHARS THEN FALSE
  ELSE IF Len(currentWords) = 0 THEN TRUE
  ELSE candidateCount >= SUPPLEMENTAL_MANY_CANDIDATES /\ Len(currentWords) <= 1

\* Abstraction of the similarity test: a text of kind "copy" is the
\* selection repeated, every other text is far from it.
isExplanationTooCloseToSource(explanation, selectedText) == explanation.kind = "copy"

correctionHintIncludesNoCopy(correctionHint) == correctionHint = "nocopy"
correctionHintIncludesMissingExplanation(correctionHint) == correctionHint = "missing"

shouldRetryForMissingExplanation(parsed, correctionHint) ==
  ~hasText(parsed.simple_explanation) /\ ~correctionHintIncludesMissingExplanation(correctionHint)

\* --------------------------------------------------- upstream calls
\* What one requestResponsesApi call gives its caller: the error that
\* postProxyJson throws and withExponentialBackoff lets through, or the
\* provider's JSON (extractOutputText, isMaxOutputTokensIncomplete).
NoError == Error("NONE", FALSE, FALSE)
ApiErr(code, recoverableText) ==
  [t |-> "err", error |-> Error(code, TRUE, recoverableText), incomplete |-> FALSE,
   text |-> RawEmpty]
ApiOk(incomplete, text) ==
  [t |-> "ok", error |-> NoError, incomplete |-> incomplete, text |-> text]

ApiOutcomes ==
  {ApiErr("NETWORK_RETRYABLE", FALSE), ApiErr("PROXY_RETRYABLE", FALSE),
   ApiErr("PROXY_ERROR", FALSE), ApiErr("PROXY_ERROR", TRUE),
   ApiOk(FALSE, RawEmpty), ApiOk(FALSE, RawBad), ApiOk(TRUE, RawBad)}
  \cup {ApiOk(FALSE, RawJson(b)) : b \in JsonBodies}

extractOutputText(response) == response.text
isMaxOutputTokensIncomplete(response) == response.incomplete
HasOutputText(response) == response.text.kind # "empty"

\* An upstream call with an HTTP success whose body cannot be used.
Unusable(out) == out.t = "ok" /\ out.text.kind \in {"empty", "bad"}

\* What a step of a retry ladder decides: issue the call of another
\* stage, return a result to its caller, or throw.
Call(stage, attemptCount, hint, incomplete) ==
  [t |-> "call", stage |-> stage, attemptCount |-> attemptCount, hint |-> hint,
   incomplete |-> incomplete, parsed |-> NoResult, error |-> NoError]
Ret(parsed) ==
  [t |-> "ret", stage |-> None, attemptCount |-> 0, hint |-> "", incomplete |-> FALSE,
   parsed |-> parsed, error |-> NoError]
Throw(error) ==
  [t |-> "throw", stage |-> None, attemptCount |-> 0, hint |-> "", incomplete |-> FALSE,
   parsed |-> NoResult, error |-> error]

\* tryRepairResponseJson once its call has settled: the repaired result,
\* or NoResult for null.
tryRepairResponseJson(out) ==
  IF out.t = "err" THEN NoResult
  ELSE IF ~HasOutputText(out) THEN NoResult
  ELSE IF ~CanParse(extractOutputText(out)) THEN NoResult
  ELSE parseAndNormalizeResponse(extractOutputText(out))

RepairFailed(out) ==
  out.t = "err" \/ ~HasOutputText(out) \/ ~CanParse(extractOutputText(out))

\* callModelForEasyRead without the check of attemptCount.
callModelForEasyRead_NoCap(selectedText, attemptCount, hint, singleAttempt) ==
  Call(IF singleAttempt THEN "single" ELSE "base", attemptCount, hint, FALSE)

\* callModelForEasyRead entered with attemptCount and correctionHint.
callModelForEasyRead(selectedText, attemptCount, hint, singleAttempt) ==
  IF attemptCount > MAX_EXPLAIN_ATTEMPTS
  THEN Ret(buildLocalFallbackResult(selectedText, <<"stopped">>))
  ELSE Call(IF singleAttempt THEN "single" ELSE "base", attemptCount, hint, FALSE)

\* The parse branch of callModelForEasyRead (background.js:1215-1249 and
\* 1283-1317): a parsed result is returned, retried or replaced.
EasyReadParsed(selectedText, loc, parsed) ==
  IF shouldRetryForMissingExplanation(parsed, loc.hint)
  THEN callModelForEasyRead(selectedText, loc.attemptCount + 1, "missing", FALSE)
  ELSE IF isExplanationTooCloseToSource(parsed.simple_explanation, selectedText)
  THEN IF ~correctionHintIncludesNoCopy(loc.hint)
       THEN callModelForEasyRead(selectedText, loc.attemptCount + 1, "nocopy", FALSE)
       ELSE Ret(buildLocalFallbackResult(selectedText, <<"fallback_raw">>))
  ELSE Ret(parsed)

\* background.js:1338-1354: no repair worked.
EasyReadBadJson(selectedText, loc) ==
  IF loc.hint # ""
  THEN Ret(buildLocalFallbackResult(selectedText, <<"fallback_raw">>))
  ELSE callModelForEasyRead(selectedText, loc.attemptCount + 1, "badjson", FALSE)

\* background.js:1208-1255: the text of the last response is in hand.
EasyReadText(selectedText, loc, out) ==
  IF ~HasOutputText(out)
  THEN Ret(buildLocalFallbackResult(selectedText, <<"fallback_raw">>))
  ELSE IF CanParse(extractOutputText(out))
  THEN EasyReadParsed(selectedText, loc, parseAndNormalizeResponse(extractOutputText(out)))
  ELSE Call("repair", loc.attemptCount, loc.hint, isMaxOutputTokensIncomplete(out))

\* One settled call of callModelForEasyRead at stage loc.stage.
EasyReadStep(selectedText, model, loc, out) ==
  CASE loc.stage = "single" ->
         IF out.t = "err" THEN Throw(out.error)
         ELSE IF ~HasOutputText(out)
         THEN callModelForEasyRead(selectedText, loc.attemptCount + 1, "notext", FALSE)
         ELSE IF ~CanParse(extractOutputText(out))
         THEN callModelForEasyRead(selectedText, loc.attemptCount + 1, "badjson", FALSE)
         ELSE LET parsed == parseAndNormalizeResponse(extractOutputText(out))
              IN IF shouldRetryForMissingExplanation(parsed, loc.hint)
                 THEN callModelForEasyRead(selectedText, loc.attemptCount + 1, "missing", FALSE)
                 ELSE IF isExplanationTooCloseToSource(parsed.simple_explanation, selectedText)
                 THEN callModelForEasyRead(selectedText, loc.attemptCount + 1, "nocopy", FALSE)
                 ELSE Ret(parsed)
    [] loc.stage = "base" ->
         IF out.t = "err" THEN Throw(out.error)
         ELSE IF ~HasOutputText(out)
         THEN Call("noschema", loc.attemptCount, loc.hint, FALSE)
         ELSE EasyReadText(selectedText, loc, out)
    [] loc.stage = "noschema" ->
         IF out.t = "err" THEN Throw(out.error)
         ELSE IF ~HasOutputText(out) /\ model = MODEL_SHORT_TEXT
         THEN Call("larger", loc.attemptCount, loc.hint, FALSE)
         ELSE EasyReadText(selectedText, loc, out)
    [] loc.stage = "larger" ->
         IF out.t = "err" THEN Throw(out.error)
         ELSE EasyReadText(selectedText, loc, out)
    [] loc.stage = "repair" ->
         IF ~RepairFailed(out)
         THEN LET repaired == tryRepairResponseJson(out)
              IN IF ~hasText(repaired.simple_explanation)
                 THEN Ret(buildLocalFallbackResult(selectedText, <<"fallback_raw">>))
                 ELSE IF isExplanationTooCloseToSource(repaired.simple_explanation, selectedText)
                 THEN Ret(buildLocalFallbackResult(selectedText, <<"fallback_raw">>))
                 ELSE Ret(repaired)
         ELSE IF loc.incomplete
         THEN Call("expanded", loc.attemptCount, loc.hint, FALSE)
         ELSE EasyReadBadJson(selectedText, loc)
    [] loc.stage = "expanded" ->
         IF out.t = "err" THEN Throw(out.error)
         ELSE IF ~HasOutputText(out) THEN EasyReadBadJson(selectedText, loc)
         ELSE IF CanParse(extractOutputText(out))
         THEN EasyReadParsed(selectedText, loc, parseAndNormalizeResponse(extractOutputText(out)))
         ELSE Call("expandedRepair", loc.attemptCount, loc.hint, FALSE)
    [] loc.stage = "expandedRepair" ->
         IF ~RepairFailed(out)
         THEN LET repaired == tryRepairResponseJson(out)
              IN IF ~hasText(repaired.simple_explanation)
                 THEN Ret(buildLocalFallbackResult(selectedText, <<"fallback_raw">>))
                 ELSE Ret(repaired)
         ELSE EasyReadBadJson(selectedText, loc)

\* analyzeExplanationOnlySelection: parsed text (background.js:617-650).
ExplanationOnlyParsed(selectedText, parsed) ==
  Ret(enforceEasyLanguage([parsed EXCEPT !.a2_plus_words = <<>>], selectedText))

\* One settled call of analyzeExplanationOnlySelection.
ExplanationOnlyStep(selectedText, loc, out) ==
  CASE loc.stage = "eoSchema" ->
         IF out.t = "err" THEN Throw(out.error)
         ELSE IF ~HasOutputText(out) THEN Call("eoNoSchema", 1, "", FALSE)
         ELSE IF CanParse(extractOutputText(out))
         THEN ExplanationOnlyParsed(selectedText, parseAndNormalizeResponse(extractOutputText(out)))
         ELSE Call("eoRepair", 1, "", FALSE)
    [] loc.stage = "eoNoSchema" ->
         IF out.t = "err" THEN Throw(out.error)
         ELSE IF ~HasOutputText(out)
         THEN Ret(buildLocalFallbackResult(selectedText, <<"fallback_raw">>))
         ELSE IF CanParse(extractOutputText(out))
         THEN ExplanationOnlyParsed(selectedText, parseAndNormalizeResponse(extractOutputText(out)))
         ELSE Call("eoRepair", 1, "", FALSE)
    [] loc.stage = "eoRepair" ->
         IF RepairFailed(out)
         THEN Ret(buildLocalFallbackResult(selectedText, <<"fallback_raw">>))
         ELSE ExplanationOnlyParsed(selectedText, tryRepairResponseJson(out))

\* The analysis function of handleExplainRequest's work promise whose
\* upstream call is pending at a stage (background.js:271-317): the stages
\* of analyzeExplanationOnlySelection, else those of callModelForEasyRead
\* under analyzeSingleSelection.  The handler has no call of
\* analyzeLongSelection (background.js:653), the one caller of
\* splitTextIntoChunks.
AnalysisOf(stage) ==
  IF stage \in {"eoSchema", "eoNoSchema", "eoRepair"}
  THEN "analyzeExplanationOnlySelection"
  ELSE "analyzeSingleSelection"

\* callModelForB2PlusWords once its call has settled (an error is thrown
\* by the caller's await and is not handled here).
callModelForB2PlusWords(out) ==
  IF ~HasOutputText(out) THEN <<>>
  ELSE IF ~CanParse(extractOutputText(out)) THEN <<>>
  ELSE parseAndNormalizeWordCoverage(extractOutputText(out))


\* ------------------------------------------------ messages and keys
\* An "easyread-explain" message with its sender: the raw selection is
\* the trimmed text plus pad whitespace characters around it.
Msg(text, pad, mode, origin, tab) ==
  [selectedText |-> [text |-> text, pad |-> pad], explanationMode |-> mode,
   pageOrigin |-> origin, tabId |-> tab]

Messages ==
  { Msg("short", 0, "balanced", "https://a.example", "tab1"),
    Msg("short", 1, "verbose", "https://a.example", NoTab),
    Msg("max", 1, "balanced", "https://b.example", NoTab),
    Msg("over", 0, "balanced", "https://a.example", "tab1"),
    Msg("empty", 1, "balanced", "https://a.example", "tab1") }

NoMsg == Msg("empty", 0, "", "", NoTab)

KeyOf(msg) ==
  buildCacheKey([pageOrigin |-> getPageOrigin(msg),
                 selectedText |-> normalizeSelection(msg.selectedText),
                 explanationMode |-> normalizeExplanationMode(msg.explanationMode),
                 model |-> chooseModelForText(LenOf(normalizeSelection(msg.selectedText))),
                 modelVersion |-> MODEL_VERSION])

AllKeys == {KeyOf(m) : m \in Messages}
NoKey == <<>>

\* -------------------------------------------------- lib/storage.js
NoRequest == [selectedText |-> "", explanationMode |-> "", model |-> ""]
NoEntry == [present |-> FALSE, createdAt |-> 0, expiresAt |-> 0, request |-> NoRequest,
            response |-> NoResult]
EmptyMap == [k \in AllKeys |-> NoEntry]

\* A lookup that serves whatever entry the map holds.
getCachedResponse_NoExpiry(map, cacheKey, nowMs) ==
  IF ~map[cacheKey].present THEN [found |-> FALSE, response |-> NoResult]
  ELSE [found |-> TRUE, response |-> map[cacheKey].response]

\* getCachedResponse once getCacheMap has answered with map.
getCachedResponse(map, cacheKey, nowMs) ==
  LET entry == map[cacheKey]
  IN IF ~entry.present \/ entry.expiresAt = 0 \/ entry.expiresAt < nowMs
     THEN [found |-> FALSE, response |-> NoResult]
     ELSE [found |-> TRUE, response |-> entry.response]

\* pruneExpiredCacheEntries once getCacheMap has answered with map: the
\* map without its expired entries (part_004:38-43).
pruneExpiredCacheEntries(map, nowMs) ==
  [k \in DOMAIN map |->
     IF map[k].present /\ (map[k].expiresAt = 0 \/ map[k].expiresAt < nowMs)
     THEN NoEntry ELSE map[k]]

\* saveCachedResponse between its two awaits: the map it will write.
saveCachedResponse(map, cacheKey, requestPayload, responsePayload, nowMs) ==
  [map EXCEPT ![cacheKey] =
     [present |-> TRUE, createdAt |-> nowMs, expiresAt |-> nowMs + CACHE_TTL_MS,
      request |-> requestPayload, response |-> responsePayload]]

RequestPayload(selectedText, explanationMode, model) ==
  [selectedText |-> selectedText, explanationMode |-> explanationMode, model |-> model]

\* ---------------------------------------------------------- state
VARIABLES
  fastMax,      \* FAST_SINGLE_CALL_MAX_CHARS of the build
  faults,       \* chrome.storage.local.set may reject
  now,          \* Date.now()
  settingsId,   \* anonymousClientId held in storage
  cache,        \* the cache map held in storage
  storageQ,     \* processes whose storage call is pending, oldest first
  inflight,     \* inflightRequests: key -> request owning the work promise
  req,          \* handleExplainRequest invocations
  work,         \* their work promises
  def,          \* their runDeferredWordsPass invocations
  resp,         \* what sendResponse was called with
  pushes,       \* words-update messages sent to the tab
  trace,        \* what each request did, in order
  clr,          \* easyread-clear-cache invocations
  fresh,        \* keys answered ok, cached:false and not cleared or expired since
  store,        \* callers of lib/storage.js alone (SpecStore)
  fn            \* one call of a function taken alone: its arguments and result

vars == <<fastMax, faults, now, settingsId, cache, storageQ, inflight, req, work, def,
          resp, pushes, trace, clr, fresh, store, fn>>

Clr == 1..MaxClears
TickMs == CACHE_TTL_MS + 1

NoLoc == [stage |-> None, attemptCount |-> 0, hint |-> "", incomplete |-> FALSE]
LocOf(step) ==
  [stage |-> step.stage, attemptCount |-> step.attemptCount, hint |-> step.hint,
   incomplete |-> step.incomplete]

IdleReq ==
  [pc |-> "idle", msg |-> NoMsg, afterFresh |-> FALSE, overlaps |-> {}, clientId |-> NoId, cacheKey |-> NoKey,
   loc |-> NoLoc, result |-> NoResult, recovering |-> FALSE, newMap |-> EmptyMap,
   joined |-> 0]
NoWork == [state |-> "none", result |-> NoResult, wordsPending |-> FALSE, error |-> NoError]
NoDef == [pc |-> "none", baseResult |-> NoResult, finalResult |-> NoResult, newMap |-> EmptyMap]
NoResp ==
  [t |-> "none", cached |-> FALSE, result |-> NoResult, requestId |-> 0,
   wordsPending |-> FALSE, explanationMode |-> "", error |-> GenericMessage, code |-> ""]

OkResp(cached, result, requestId, wordsPending, explanationMode) ==
  [t |-> "ok", cached |-> cached, result |-> result, requestId |-> requestId,
   wordsPending |-> wordsPending, explanationMode |-> explanationMode,
   error |-> GenericMessage, code |-> ""]
FailResp(error) ==
  [NoResp EXCEPT !.t = "fail", !.error = toUserErrorMessage(error), !.code = error.code]

\* Callers of the storage layer taken alone: each calls saveCachedResponse
\* or getCachedResponse, one call after another.
Cli == 1..MaxClients
StoreKeys == {KeyOf(Msg("short", 0, "balanced", "https://a.example", "tab1")),
              KeyOf(Msg("max", 1, "balanced", "https://b.example", NoTab))}
StoreResponses == {parseAndNormalizeResponse(RawJson(BodyGood)),
                   buildLocalFallbackResult("short", <<"fallback_raw">>)}
Miss == [found |-> FALSE, response |-> NoResult]
IdleCli == [pc |-> "idle", op |-> None, key |-> NoKey, response |-> NoResult,
            newMap |-> EmptyMap, got |-> Miss, lastSaved |-> Miss]
IdleStore == [cli |-> [c \in Cli |-> IdleCli], lastSaved |-> [k \in StoreKeys |-> Miss],
              ops |-> 0]

NoFn == [op |-> None]

InitProgram(storageFaults) ==
  /\ fastMax \in {FAST_SINGLE_CALL_MAX_CHARS, FAST_SINGLE_CALL_MAX_CHARS_320}
  /\ faults = storageFaults
  /\ now = 0
  /\ settingsId = NoId
  /\ cache = EmptyMap
  /\ storageQ = <<>>
  /\ inflight = [k \in AllKeys |-> 0]
  /\ req = [r \in Req |-> IdleReq]
  /\ work = [r \in Req |-> NoWork]
  /\ def = [r \in Req |-> NoDef]
  /\ resp = [r \in Req |-> NoResp]
  /\ pushes = [r \in Req |-> <<>>]
  /\ trace = [r \in Req |-> <<>>]
  /\ clr = [c \in Clr |-> "idle"]
  /\ fresh = {}
  /\ store = IdleStore

InitWith(storageFaults) == InitProgram(storageFaults) /\ fn = NoFn

Init == InitWith(FALSE)
InitFault == InitWith(TRUE)

\* Fields of a request derived as handleExplainRequest derives them.
SelectedText(r) == normalizeSelection(req[r].msg.selectedText)
ExplanationMode(r) == normalizeExplanationMode(req[r].msg.explanationMode)
TabId(r) == req[r].msg.tabId
IsFastSingleCallPath(r) == LenOf(SelectedText(r)) <= fastMax
SelectedModel(r) == chooseModelForText(LenOf(SelectedText(r)))
RequestId(r) == r

\* trace keeps the first occurrence of each event, in order.
Did(log, event) == \E i \in DOMAIN log : log[i] = event
RECURSIVE Extend(_, _)
Extend(log, events) ==
  IF events = <<>> THEN log
  ELSE Extend(IF Did(log, Head(events)) THEN log ELSE Append(log, Head(events)), Tail(events))
Log(r, events) == [trace EXCEPT ![r] = Extend(@, events)]

\* A request that has returned or thrown keeps no locals.
Finished(request) ==
  [request EXCEPT !.pc = "done", !.loc = NoLoc, !.result = NoResult, !.newMap = EmptyMap]

\* onMessage "easyread-explain": handleExplainRequest runs to await getSettings().
Start(r, msg) ==
  /\ req[r].pc = "idle"
  /\ \A q \in Req : q < r => req[q].pc # "idle"
  /\ req' = [req EXCEPT ![r] = [@ EXCEPT !.pc = "getSettings", !.msg = msg,
                                         !.afterFresh = KeyOf(msg) \in fresh,
                                         !.overlaps = {q \in Req : req[q].pc \notin
                                                                     {"idle", "done"}}]]
  /\ storageQ' = Append(storageQ, <<"req", r>>)
  /\ trace' = Log(r, <<"settings_get">>)
  /\ UNCHANGED <<fn, store, fastMax, faults, now, settingsId, cache, inflight, work, def, resp, pushes,
                 clr, fresh>>


Head1(q) == IF q = <<>> THEN <<"none", 0>> ELSE Head(q)
NewClientId(r) == "anon-" \o ToString(r)

\* The length check left out.
TooLong_Never(selectedText) == FALSE

\* The length check with >= for >.
TooLong_OffByOne(selectedText) == LenOf(selectedText) >= HARD_MAX_CHARS

\* background.js:218
TooLong(selectedText) == LenOf(selectedText) > HARD_MAX_CHARS

\* getSettings() answers: validation, then getOrCreateAnonymousClientId.
GetSettingsDone(r) ==
  /\ req[r].pc = "getSettings"
  /\ Head1(storageQ) = <<"req", r>>
  /\ LET selectedText == SelectedText(r)
     IN IF LenOf(selectedText) = 0
        THEN /\ req' = [req EXCEPT ![r] = Finished(@)]
             /\ resp' = [resp EXCEPT ![r] = FailResp(ErrNoSelection)]
             /\ storageQ' = Tail(storageQ)
             /\ trace' = Log(r, <<"responded">>)
        ELSE IF TooLong(selectedText)
        THEN /\ req' = [req EXCEPT ![r] = Finished(@)]
             /\ resp' = [resp EXCEPT ![r] = FailResp(ErrTooLong(LenOf(selectedText)))]
             /\ storageQ' = Tail(storageQ)
             /\ trace' = Log(r, <<"responded">>)
        ELSE IF settingsId # NoId
        THEN /\ req' = [req EXCEPT ![r] = [@ EXCEPT !.pc = "digest", !.clientId = settingsId]]
             /\ storageQ' = Tail(storageQ)
             /\ UNCHANGED <<resp, trace>>
        ELSE /\ req' = [req EXCEPT ![r] = [@ EXCEPT !.pc = "saveSettings",
                                                    !.clientId = NewClientId(r)]]
             /\ storageQ' = Append(Tail(storageQ), <<"req", r>>)
             /\ trace' = Log(r, <<"settings_set">>)
             /\ UNCHANGED resp
  /\ UNCHANGED <<fn, store, fastMax, faults, now, settingsId, cache, inflight, work, def, pushes, clr,
                 fresh>>

\* saveSettings() of getOrCreateAnonymousClientId answers; sha256 starts.
SaveSettingsDone(r) ==
  /\ req[r].pc = "saveSettings"
  /\ Head1(storageQ) = <<"req", r>>
  /\ storageQ' = Tail(storageQ)
  /\ \E ok \in (IF faults THEN BOOLEAN ELSE {TRUE}) :
       IF ok
       THEN /\ settingsId' = req[r].clientId
            /\ req' = [req EXCEPT ![r].pc = "digest"]
            /\ UNCHANGED <<resp, trace>>
       ELSE /\ req' = [req EXCEPT ![r] = Finished(@)]
            /\ resp' = [resp EXCEPT ![r] = FailResp(ErrStorage)]
            /\ trace' = Log(r, <<"responded">>)
            /\ UNCHANGED settingsId
  /\ UNCHANGED <<fn, store, fastMax, faults, now, cache, inflight, work, def, pushes, clr, fresh>>

\* crypto.subtle.digest answers: the key is known, getCachedResponse starts.
DigestDone(r) ==
  /\ req[r].pc = "digest"
  /\ req' = [req EXCEPT ![r] = [@ EXCEPT !.pc = "cacheGet", !.cacheKey = KeyOf(req[r].msg)]]
  /\ storageQ' = Append(storageQ, <<"req", r>>)
  /\ trace' = Log(r, <<"cache_lookup">>)
  /\ UNCHANGED <<fn, store, fastMax, faults, now, settingsId, cache, inflight, work, def, resp, pushes,
                 clr, fresh>>


\* --------------------------------------------- work promise settles
Joiners(o) == {j \in Req : req[j].pc = "join" /\ req[j].joined = o}

\* What a request that awaited another's work promise returns
\* (background.js:255-267) or throws.
SharedResponse(j, shared) ==
  IF shared.state = "resolved"
  THEN OkResp(FALSE, ensureNonEmptyExplanation(shared.result, SelectedText(j), <<"filled">>),
              RequestId(j), shared.wordsPending, ExplanationMode(j))
  ELSE FailResp(shared.error)

Resolved(result, wordsPending) ==
  [state |-> "resolved", result |-> result, wordsPending |-> wordsPending, error |-> NoError]
Rejected(error) ==
  [state |-> "rejected", result |-> NoResult, wordsPending |-> FALSE, error |-> error]

\* A finally block that leaves the registry as it is.
InflightDelete_Kept(r) == inflight

InflightDelete(r) ==
  IF IsFastSingleCallPath(r) THEN [inflight EXCEPT ![req[r].cacheKey] = 0] ELSE inflight
DeleteEvent(r) == IF IsFastSingleCallPath(r) THEN <<"inflight_delete">> ELSE <<>>

\* The work promise of r resolves: r and the requests awaiting it return
\* (background.js:374-381, 255-267), then finally (406-410).
WorkResolves(r, result, wordsPending, q, events) ==
  LET js == Joiners(r)
      settled == Resolved(result, wordsPending)
  IN /\ work' = [work EXCEPT ![r] = settled]
     /\ req' = [x \in Req |-> IF x \in js \cup {r}
                              THEN Finished(req[x])
                              ELSE req[x]]
     /\ resp' = [x \in Req |->
                   IF x = r
                   THEN OkResp(FALSE, result, RequestId(r), wordsPending, ExplanationMode(r))
                   ELSE IF x \in js THEN SharedResponse(x, settled) ELSE resp[x]]
     /\ inflight' = InflightDelete(r)
     /\ trace' = [x \in Req |->
                    IF x = r
                    THEN Extend(trace[x], events \o <<"resolved", "responded">> \o DeleteEvent(r))
                    ELSE IF x \in js THEN Extend(trace[x], <<"responded">>) ELSE trace[x]]
     /\ fresh' = fresh \cup {req[r].cacheKey}
     /\ storageQ' = q

\* The work promise of r rejects: the requests awaiting it throw; r saves
\* a local fallback when the error is recoverable (383-403), else throws.
WorkRejects(r, error, q, events) ==
  LET js == Joiners(r)
      settled == Rejected(error)
      recover == isRecoverableModelOutputError(error)
  IN /\ work' = [work EXCEPT ![r] = settled]
     /\ req' = [x \in Req |->
                  IF x \in js THEN Finished(req[x])
                  ELSE IF x # r THEN req[x]
                  ELSE IF recover
                  THEN [req[x] EXCEPT !.pc = "saveGet", !.recovering = TRUE,
                          !.result = buildLocalFallbackResult(SelectedText(r), <<"fallback_raw">>)]
                  ELSE Finished(req[x])]
     /\ resp' = [x \in Req |->
                   IF x \in js THEN SharedResponse(x, settled)
                   ELSE IF x = r /\ ~recover THEN FailResp(error) ELSE resp[x]]
     /\ inflight' = IF recover THEN inflight ELSE InflightDelete(r)
     /\ trace' = [x \in Req |->
                    IF x = r
                    THEN Extend(trace[x], events \o <<"rejected">> \o
                           (IF recover THEN <<"save_get">>
                            ELSE <<"responded">> \o DeleteEvent(r)))
                    ELSE IF x \in js THEN Extend(trace[x], <<"responded">>) ELSE trace[x]]
     /\ fresh' = fresh
     /\ storageQ' = IF recover THEN Append(q, <<"req", r>>) ELSE q

\* The in-flight check left out: every request starts its own work promise.
ShouldJoin_Never(isFastSingleCallPath, owner) == FALSE

\* background.js:254: the request awaits a work promise registered for its key.
ShouldJoin(isFastSingleCallPath, owner) == isFastSingleCallPath /\ owner # 0

\* getCachedResponse answers: a hit returns, a registered work promise is
\* awaited, else the work promise starts and runs to its first fetch.
CacheGetDone(r) ==
  /\ req[r].pc = "cacheGet"
  /\ Head1(storageQ) = <<"req", r>>
  /\ storageQ' = Tail(storageQ)
  /\ LET cacheKey == req[r].cacheKey
         cached == getCachedResponse(cache, cacheKey, now)
         owner == inflight[cacheKey]
         fast == IsFastSingleCallPath(r)
     IN IF cached.found
        THEN /\ req' = [req EXCEPT ![r] = Finished(@)]
             /\ resp' = [resp EXCEPT ![r] =
                  OkResp(TRUE, ensureNonEmptyExplanation(cached.response, SelectedText(r),
                                                         <<"filled">>),
                         RequestId(r), FALSE, ExplanationMode(r))]
             /\ trace' = Log(r, <<"responded">>)
             /\ UNCHANGED <<inflight, work, fresh>>
        ELSE IF ShouldJoin(fast, owner)
        THEN IF work[owner].state = "pending"
             THEN /\ req' = [req EXCEPT ![r] = [@ EXCEPT !.pc = "join", !.joined = owner]]
                  /\ trace' = Log(r, <<"joined">>)
                  /\ UNCHANGED <<resp, inflight, work, fresh>>
             ELSE /\ req' = [req EXCEPT ![r] = [Finished(@) EXCEPT !.joined = owner]]
                  /\ resp' = [resp EXCEPT ![r] = SharedResponse(r, work[owner])]
                  /\ trace' = Log(r, <<"joined", "responded">>)
                  /\ fresh' = IF work[owner].state = "resolved" THEN fresh \cup {cacheKey}
                              ELSE fresh
                  /\ UNCHANGED <<inflight, work>>
        ELSE /\ req' = [req EXCEPT ![r] = [@ EXCEPT !.pc = "up", !.loc =
                  IF fast THEN LocOf(callModelForEasyRead(SelectedText(r), 1, "", TRUE))
                  ELSE LocOf(Call("eoSchema", 1, "", FALSE))]]
             /\ work' = [work EXCEPT ![r] = [NoWork EXCEPT !.state = "pending"]]
             /\ inflight' = IF fast THEN [inflight EXCEPT ![cacheKey] = r] ELSE inflight
             /\ trace' = Log(r, <<"upstream">> \o (IF fast THEN <<"inflight_set">> ELSE <<>>))
             /\ UNCHANGED <<resp, fresh>>
  /\ UNCHANGED <<fn, store, fastMax, faults, now, settingsId, cache, def, pushes, clr>>

\* ------------------------------------------------ the work promise
SavePayload(r) == RequestPayload(SelectedText(r), ExplanationMode(r), SelectedModel(r))

\* background.js:280-304: analyzeSingleSelection returned parsed.
FastResult(r, parsed) ==
  LET words == keepB2PlusWords(parsed.a2_plus_words)
      noted == [parsed EXCEPT !.a2_plus_words = words,
                  !.notes = IF Len(words) = 0 /\ ExtractA2PlusCandidates(SelectedText(r)) > 0
                            THEN appendNote(@, <<"nowords_raw">>) ELSE @]
  IN [usable |-> isOutputUsable(noted),
      result |-> ensureNonEmptyExplanation(enforceEasyLanguage(noted, SelectedText(r)),
                                           SelectedText(r), <<"filled">>)]

\* background.js:319-334: analyzeExplanationOnlySelection returned parsed.
ImmediateResult(r, parsed) ==
  LET safeImmediateResult ==
        ensureNonEmptyExplanation(
          enforceEasyLanguage([parsed EXCEPT !.a2_plus_words = <<>>], SelectedText(r)),
          SelectedText(r), <<"filled">>)
  IN [usable |-> isOutputUsable(safeImmediateResult), result |-> safeImmediateResult]

\* A deferred pass that yielded before its fetch.
StartDeferred_Yielding == <<"deferred_start">>

\* background.js:352-362: void runDeferredWordsPass(...) runs, inside the
\* work promise, to the fetch of callModelForB2PlusWords (1041, 1391, 1416,
\* 1429, 1826: no await comes before the fetch); the work promise's return
\* at 364 follows.
StartDeferred == <<"deferred_start", "deferred_upstream">>

\* One upstream call of the work promise of r settles with out.
UpstreamSettle(r, out) ==
  /\ req[r].pc = "up"
  /\ LET selectedText == SelectedText(r)
         fast == IsFastSingleCallPath(r)
         step == IF fast THEN EasyReadStep(selectedText, SelectedModel(r), req[r].loc, out)
                 ELSE ExplanationOnlyStep(selectedText, req[r].loc, out)
         final == IF fast THEN FastResult(r, step.parsed) ELSE ImmediateResult(r, step.parsed)
         seen == IF Unusable(out) THEN <<>> ELSE <<"answer_other">>
     IN CASE step.t = "call" ->
               /\ req' = [req EXCEPT ![r].loc = LocOf(step)]
               /\ trace' = Log(r, seen \o <<"upstream">>)
               /\ UNCHANGED <<work, resp, inflight, fresh, storageQ, def>>
          [] step.t = "throw" ->
               /\ WorkRejects(r, step.error, storageQ, seen)
               /\ UNCHANGED def
          [] step.t = "ret" /\ ~final.usable ->
               /\ WorkRejects(r, ErrEmptyResult, storageQ, seen)
               /\ UNCHANGED def
          [] step.t = "ret" /\ final.usable
               /\ (fast \/ ExtractA2PlusCandidates(selectedText) <= 0) ->
               /\ req' = [req EXCEPT ![r] = [@ EXCEPT !.pc = "saveGet", !.loc = NoLoc,
                                                      !.result = final.result]]
               /\ storageQ' = Append(storageQ, <<"req", r>>)
               /\ trace' = Log(r, seen \o <<"save_get">>)
               /\ UNCHANGED <<work, resp, inflight, fresh, def>>
          [] OTHER ->
               /\ def' = [def EXCEPT ![r] = [NoDef EXCEPT !.pc = "call",
                                                          !.baseResult = final.result]]
               /\ WorkResolves(r, final.result, TRUE, storageQ, seen \o StartDeferred)
  /\ UNCHANGED <<fn, store, fastMax, faults, now, settingsId, cache, pushes, clr>>

\* getCacheMap() of the request's saveCachedResponse answers.
SaveGetDone(r) ==
  /\ req[r].pc = "saveGet"
  /\ Head1(storageQ) = <<"req", r>>
  /\ req' = [req EXCEPT ![r] = [@ EXCEPT !.pc = "saveSet", !.newMap =
               saveCachedResponse(cache, req[r].cacheKey, SavePayload(r), req[r].result, now)]]
  /\ storageQ' = Append(Tail(storageQ), <<"req", r>>)
  /\ trace' = Log(r, <<"save_set">>)
  /\ UNCHANGED <<fn, store, fastMax, faults, now, settingsId, cache, inflight, work, def, resp, pushes,
                 clr, fresh>>

\* chrome.storage.local.set of the request's saveCachedResponse answers.
SaveSetDone(r) ==
  /\ req[r].pc = "saveSet"
  /\ Head1(storageQ) = <<"req", r>>
  /\ \E ok \in (IF faults THEN BOOLEAN ELSE {TRUE}) :
       /\ cache' = IF ok THEN req[r].newMap ELSE cache
       /\ IF req[r].recovering
          THEN /\ req' = [req EXCEPT ![r] = Finished(@)]
               /\ resp' = [resp EXCEPT ![r] =
                    IF ok THEN OkResp(FALSE, req[r].result, RequestId(r), FALSE,
                                      ExplanationMode(r))
                    ELSE FailResp(ErrStorage)]
               /\ inflight' = InflightDelete(r)
               /\ trace' = Log(r, <<"responded">> \o DeleteEvent(r))
               /\ fresh' = IF ok THEN fresh \cup {req[r].cacheKey} ELSE fresh
               /\ storageQ' = Tail(storageQ)
               /\ UNCHANGED work
          ELSE IF ok
          THEN WorkResolves(r, req[r].result, FALSE, Tail(storageQ), <<>>)
          ELSE WorkRejects(r, ErrStorage, Tail(storageQ), <<>>)
  /\ UNCHANGED <<fn, store, fastMax, faults, now, settingsId, def, pushes, clr>>


\* ---------------------------------------------- runDeferredWordsPass
NoPush == [requestId |-> 0, hasResult |-> FALSE, result |-> NoResult, error |-> ""]
ResultPush(requestId, result) ==
  [requestId |-> requestId, hasResult |-> TRUE, result |-> result, error |-> ""]
\* A words-update that carries neither a result nor an error string.
ErrorPush_NoText(requestId) ==
  [requestId |-> requestId, hasResult |-> FALSE, result |-> NoResult, error |-> ""]

ErrorPush(requestId) ==
  [requestId |-> requestId, hasResult |-> FALSE, result |-> NoResult,
   error |-> "Words are taking too long. Try again for the full word list."]

\* A words-update that is dropped.
SendTabUpdate_Dropped(r, message) == pushes

\* sendTabUpdate when the sender had a tab.
SendTabUpdate(r, message) ==
  IF TabId(r) # NoTab THEN [pushes EXCEPT ![r] = Append(@, message)] ELSE pushes

\* The base result with the words as the model gave them.
SafeFinalResult_Raw(r, words) == [def[r].baseResult EXCEPT !.a2_plus_words = words]

\* background.js:1471-1488: the words call returned words.
SafeFinalResult(r, words) ==
  LET baseResult == def[r].baseResult
      finalNotes == IF Len(words) = 0 THEN appendNote(baseResult.notes, <<"nowords_raw">>)
                    ELSE baseResult.notes
  IN ensureNonEmptyExplanation(
       enforceEasyLanguage([baseResult EXCEPT !.a2_plus_words = keepB2PlusWords(words),
                                              !.notes = finalNotes],
                           SelectedText(r)),
       SelectedText(r), <<"filled">>)

\* background.js:1071-1080: the words call answered without text, or with
\* text that parseAndNormalizeWordCoverage rejects.
WordsUnparsed(out) == ~HasOutputText(out) \/ ~CanParse(extractOutputText(out))

\* The upstream call of callModelForB2PlusWords settles with out.
DeferredSettle(r, out) ==
  /\ def[r].pc = "call"
  /\ IF out.t = "err"
     THEN /\ def' = [def EXCEPT ![r] = [NoDef EXCEPT !.pc = "done"]]
          /\ pushes' = SendTabUpdate(r, ErrorPush(RequestId(r)))
          /\ trace' = Log(r, <<"deferred_failed">>)
          /\ UNCHANGED storageQ
     ELSE /\ def' = [def EXCEPT ![r] = [@ EXCEPT !.pc = "saveGet", !.finalResult =
                       SafeFinalResult(r, callModelForB2PlusWords(out))]]
          /\ storageQ' = Append(storageQ, <<"def", r>>)
          /\ trace' = Log(r, (IF WordsUnparsed(out) THEN <<"deferred_unparsed">> ELSE <<>>)
                                \o <<"deferred_cache_get">>)
          /\ UNCHANGED pushes
  /\ UNCHANGED <<fn, store, fastMax, faults, now, settingsId, cache, inflight, req, work, resp, clr,
                 fresh>>

\* getCacheMap() of the deferred saveCachedResponse answers.
DeferredSaveGetDone(r) ==
  /\ def[r].pc = "saveGet"
  /\ Head1(storageQ) = <<"def", r>>
  /\ def' = [def EXCEPT ![r] = [@ EXCEPT !.pc = "saveSet", !.newMap =
               saveCachedResponse(cache, req[r].cacheKey, SavePayload(r), def[r].finalResult,
                                  now)]]
  /\ storageQ' = Append(Tail(storageQ), <<"def", r>>)
  /\ trace' = Log(r, <<"deferred_cache_set">>)
  /\ UNCHANGED <<fn, store, fastMax, faults, now, settingsId, cache, inflight, req, work, resp, pushes,
                 clr, fresh>>

\* chrome.storage.local.set of the deferred saveCachedResponse answers.
DeferredSaveSetDone(r) ==
  /\ def[r].pc = "saveSet"
  /\ Head1(storageQ) = <<"def", r>>
  /\ storageQ' = Tail(storageQ)
  /\ \E ok \in (IF faults THEN BOOLEAN ELSE {TRUE}) :
       /\ cache' = IF ok THEN def[r].newMap ELSE cache
       /\ def' = [def EXCEPT ![r] = [NoDef EXCEPT !.pc = "done"]]
       /\ pushes' = SendTabUpdate(r, IF ok THEN ResultPush(RequestId(r), def[r].finalResult)
                                     ELSE ErrorPush(RequestId(r)))
       /\ trace' = Log(r, IF ok THEN <<"deferred_saved">> ELSE <<"deferred_failed">>)
  /\ UNCHANGED <<fn, store, fastMax, faults, now, settingsId, inflight, req, work, resp, clr, fresh>>

\* ------------------------------------------- clear cache, the clock
\* A request that has not answered yet no longer follows a fresh answer
\* once the cache is cleared or the entries have expired.
Forget == [x \in Req |-> IF req[x].pc # "done" THEN [req[x] EXCEPT !.afterFresh = FALSE]
                         ELSE req[x]]

\* onMessage "easyread-clear-cache": clearCache() issues its write.
ClearCacheIssued(c) ==
  /\ clr[c] = "idle"
  /\ \A b \in Clr : b < c => clr[b] # "idle"
  /\ clr' = [clr EXCEPT ![c] = "set"]
  /\ storageQ' = Append(storageQ, <<"clr", c>>)
  /\ fresh' = {}
  /\ req' = Forget
  /\ UNCHANGED <<store, fastMax, faults, now, settingsId, cache, inflight, work, def, resp, pushes,
                 trace>>

ClearCache(c) == ClearCacheIssued(c) /\ UNCHANGED fn

ClearCacheDone(c) ==
  /\ clr[c] = "set"
  /\ Head1(storageQ) = <<"clr", c>>
  /\ storageQ' = Tail(storageQ)
  /\ \E ok \in (IF faults THEN BOOLEAN ELSE {TRUE}) :
       /\ cache' = IF ok THEN EmptyMap ELSE cache
       /\ clr' = [clr EXCEPT ![c] = IF ok THEN "done" ELSE "failed"]
  /\ fresh' = {}
  /\ req' = Forget
  /\ UNCHANGED <<fn, store, fastMax, faults, now, settingsId, inflight, work, def, resp, pushes, trace>>

\* Time passes: more than CACHE_TTL_MS at once.
Tick ==
  /\ now < MaxTicks * TickMs
  /\ now' = now + TickMs
  /\ fresh' = {}
  /\ req' = Forget
  /\ UNCHANGED <<fn, store, fastMax, faults, settingsId, cache, storageQ, inflight, work, def, resp,
                 pushes, trace, clr>>

Next ==
  \/ \E r \in Req, msg \in Messages : Start(r, msg)
  \/ \E r \in Req : GetSettingsDone(r)
  \/ \E r \in Req : SaveSettingsDone(r)
  \/ \E r \in Req : DigestDone(r)
  \/ \E r \in Req : CacheGetDone(r)
  \/ \E r \in Req, out \in ApiOutcomes : UpstreamSettle(r, out)
  \/ \E r \in Req : SaveGetDone(r)
  \/ \E r \in Req : SaveSetDone(r)
  \/ \E r \in Req, out \in ApiOutcomes : DeferredSettle(r, out)
  \/ \E r \in Req : DeferredSaveGetDone(r)
  \/ \E r \in Req : DeferredSaveSetDone(r)

Spec == Init /\ [][Next]_vars

\* The same program when chrome.storage.local.set can reject.
SpecFault == InitFault /\ [][Next]_vars

\* Every pending completion: a storage answer, a digest, a settled fetch.
Completions ==
  \/ \E r \in Req : GetSettingsDone(r)
  \/ \E r \in Req : SaveSettingsDone(r)
  \/ \E r \in Req : DigestDone(r)
  \/ \E r \in Req : CacheGetDone(r)
  \/ \E r \in Req, out \in ApiOutcomes : UpstreamSettle(r, out)
  \/ \E r \in Req : SaveGetDone(r)
  \/ \E r \in Req : SaveSetDone(r)
  \/ \E r \in Req, out \in ApiOutcomes : DeferredSettle(r, out)
  \/ \E r \in Req : DeferredSaveGetDone(r)
  \/ \E r \in Req : DeferredSaveSetDone(r)

\* The messages of callers that have a tab (content scripts).
LiveMessages == {msg \in Messages : msg.tabId # NoTab}

NextLive ==
  \/ \E r \in Req, msg \in LiveMessages : Start(r, msg)
  \/ Completions

\* The build as shipped (background.js:37).
InitLive == InitFault /\ fastMax = FAST_SINGLE_CALL_MAX_CHARS

\* chrome.storage answers every operation in its turn, and the upstream
\* call of a deferred pass settles (the code sets no timeout on a fetch:
\* that it settles is the caller's proviso).
Fairness ==
  \A r \in Req :
    /\ WF_vars(GetSettingsDone(r))
    /\ WF_vars(SaveSettingsDone(r))
    /\ WF_vars(CacheGetDone(r))
    /\ WF_vars(SaveGetDone(r))
    /\ WF_vars(SaveSetDone(r))
    /\ WF_vars(\E out \in ApiOutcomes : DeferredSettle(r, out))
    /\ WF_vars(DeferredSaveGetDone(r))
    /\ WF_vars(DeferredSaveSetDone(r))

\* The program with failing storage writes and callers in tabs under
\* Fairness; no assumption on the arrival of messages, on the digest or
\* on the upstream calls of the primary pipeline.
SpecLive == InitLive /\ [][NextLive]_vars /\ Fairness


\* --------------------------------------- enforceEasyLanguage alone
\* Synthetic results: every text class with and without table words and
\* rare words, no or one vocabulary entry, notes, a confidence or none.
EasyTexts == {NoText} \cup {Text(k, h, r) : k \in {"model", "copy"}, h \in BOOLEAN, r \in BOOLEAN}
EasyEntries ==
  {[word |-> "ubiquitous", cefr |-> "B2", definition_simple |-> d, example_simple |-> e] :
     d \in {NoText, Text("model", TRUE, FALSE), Text("model", FALSE, TRUE)},
     e \in {NoText, Text("model", FALSE, FALSE), Text("model", TRUE, TRUE)}}
EasyResults ==
  {[simple_explanation |-> x, a2_plus_words |-> w, notes |-> n, confidence |-> c] :
     x \in EasyTexts, w \in {<<>>} \cup {<<e>> : e \in EasyEntries},
     n \in {<<>>, <<"model_hard">>}, c \in {NotANumber, 90}}

InitEasy ==
  /\ InitProgram(FALSE)
  /\ fastMax = FAST_SINGLE_CALL_MAX_CHARS
  /\ \E result \in EasyResults, selectedText \in {"", "plain", "short"} :
       fn = [op |-> "enforceEasyLanguage", result |-> result, selectedText |-> selectedText,
             out |-> NoResult, done |-> FALSE]

EnforceEasyLanguage ==
  /\ fn.op = "enforceEasyLanguage" /\ ~fn.done
  /\ fn' = [fn EXCEPT !.out = enforceEasyLanguage(fn.result, fn.selectedText), !.done = TRUE]
  /\ UNCHANGED <<store, fastMax, faults, now, settingsId, cache, storageQ, inflight, req, work,
                 def, resp, pushes, trace, clr, fresh>>

NextEasy == EnforceEasyLanguage

SpecEasy == InitEasy /\ [][NextEasy]_vars


\* ------------------------------------- withExponentialBackoff alone
\* What the proxy answers to attempt 1, 2, ...: an HTTP status, 0 for a
\* fetch that throws, or a status negated for an answer whose body
\* cannot be read (response.text() or response.json() rejects).
Statuses == {0, 200, 400, 429, 503, 0 - 200, 0 - 400}
Plans == [1..MaxPlan -> Statuses]

\* Every failure is marked retriable.
postProxyJson_AllRetriable(status) ==
  IF status = 200 THEN [ok |-> TRUE, code |-> "", retriable |-> FALSE, status |-> status]
  ELSE [ok |-> FALSE, code |-> IF status = 400 THEN "PROXY_ERROR" ELSE "PROXY_RETRYABLE",
        retriable |-> TRUE, status |-> status]

\* background.js:1823-1856: what one postProxyJson call settles with.
postProxyJson(status) ==
  IF status = 0
  THEN [ok |-> FALSE, code |-> "NETWORK_RETRYABLE", retriable |-> TRUE, status |-> status]
  ELSE IF status = 429 \/ status >= 500
  THEN [ok |-> FALSE, code |-> "PROXY_RETRYABLE", retriable |-> TRUE, status |-> status]
  ELSE IF status < 0 /\ ~(0 - status >= 200 /\ 0 - status <= 299)
  THEN [ok |-> FALSE, code |-> "TypeError", retriable |-> FALSE, status |-> 0 - status]
  ELSE IF status < 0
  THEN [ok |-> FALSE, code |-> "SyntaxError", retriable |-> FALSE, status |-> 0 - status]
  ELSE IF ~(status >= 200 /\ status <= 299)
  THEN [ok |-> FALSE, code |-> "PROXY_ERROR", retriable |-> FALSE, status |-> status]
  ELSE [ok |-> TRUE, code |-> "", retriable |-> FALSE, status |-> status]

NoAnswer == [ok |-> FALSE, code |-> "", retriable |-> FALSE, status |-> 0]

\* withExponentialBackoff(action, maxAttempts) entered: attempt 1 calls action().
withExponentialBackoff(plan, maxAttempts) ==
  [op |-> "withExponentialBackoff", plan |-> plan, maxAttempts |-> maxAttempts,
   attempt |-> 1, calls |-> <<1>>, waitMs |-> 600, pc |-> "call",
   lastError |-> NoAnswer, returned |-> NoAnswer, thrown |-> NoAnswer]

\* A cap of 5.
postResponsesPayload_Five(plan) == withExponentialBackoff(plan, 5)

\* background.js:1413-1423
postResponsesPayload(plan) == withExponentialBackoff(plan, 3)

InitBackoff ==
  /\ InitProgram(FALSE)
  /\ fastMax = FAST_SINGLE_CALL_MAX_CHARS
  /\ \E plan \in Plans : fn = postResponsesPayload(plan)

\* await action() settles (1430-1438).
ActionSettles ==
  /\ fn.op = "withExponentialBackoff" /\ fn.pc = "call"
  /\ LET out == postProxyJson(fn.plan[fn.attempt])
     IN fn' = IF out.ok THEN [fn EXCEPT !.pc = "done", !.returned = out]
              ELSE IF ~out.retriable \/ fn.attempt = fn.maxAttempts
              THEN [fn EXCEPT !.pc = "done", !.lastError = out, !.thrown = out]
              ELSE [fn EXCEPT !.pc = "sleep", !.lastError = out]
  /\ UNCHANGED <<store, fastMax, faults, now, settingsId, cache, storageQ, inflight, req, work,
                 def, resp, pushes, trace, clr, fresh>>

\* await sleep(...) ends (1439-1440); the loop goes on or is left (1429, 1443).
SleepDone ==
  /\ fn.op = "withExponentialBackoff" /\ fn.pc = "sleep"
  /\ fn' = IF fn.attempt + 1 <= fn.maxAttempts
           THEN [fn EXCEPT !.attempt = @ + 1, !.waitMs = @ * 2, !.pc = "call",
                           !.calls = Append(@, fn.attempt + 1)]
           ELSE [fn EXCEPT !.attempt = @ + 1, !.waitMs = @ * 2, !.pc = "done",
                           !.thrown = fn.lastError]
  /\ UNCHANGED <<store, fastMax, faults, now, settingsId, cache, storageQ, inflight, req, work,
                 def, resp, pushes, trace, clr, fresh>>

NextBackoff == ActionSettles \/ SleepDone

SpecBackoff == InitBackoff /\ [][NextBackoff]_vars


\* ------------------------------------------ requestResponsesApi alone
\* An answer of the proxy: its status as in Statuses, and whether the
\* text of the failure holds text.format, json_schema, schema or strict.
\* fn.posts lists the HTTP posts made, TRUE for a payload with a schema;
\* fn.call is 1 in the first postResponsesPayload and 2 in the re-send.
BACKOFF_MAX_ATTEMPTS == 3
SchemaAnswers == [status : {0, 200, 400, 503, 0 - 400}, schemaText : BOOLEAN]

\* The error of one post as the catch of requestResponsesApi sees it:
\* an EasyReadError has a code, and only the message of a PROXY_ERROR
\* holds text of the proxy's answer (background.js:1836-1853).
ErrorOfAnswer(answer) ==
  LET out == postProxyJson(answer.status)
  IN [easyRead |-> out.code \in {"NETWORK_RETRYABLE", "PROXY_RETRYABLE", "PROXY_ERROR"},
      code |-> out.code, retriable |-> out.retriable,
      matches |-> answer.schemaText /\ out.code \notin {"NETWORK_RETRYABLE", "PROXY_RETRYABLE"}]
NoSchemaError == [easyRead |-> FALSE, code |-> "", retriable |-> FALSE, matches |-> FALSE]

\* The schema is dropped after any PROXY_ERROR.
SchemaIssue_AnyProxyError(useSchema, error) ==
  useSchema /\ error.easyRead /\ error.code = "PROXY_ERROR"

\* background.js:1400-1404
SchemaIssue(useSchema, error) ==
  useSchema /\ error.easyRead /\ error.code = "PROXY_ERROR" /\ error.matches

InitSchema ==
  /\ InitProgram(FALSE)
  /\ fastMax = FAST_SINGLE_CALL_MAX_CHARS
  /\ \E useSchema \in BOOLEAN :
       fn = [op |-> "requestResponsesApi", useSchema |-> useSchema, call |-> 1,
             attempt |-> 1, pc |-> "post", posts |-> <<useSchema>>, errors |-> <<>>,
             returned |-> FALSE, thrown |-> NoSchemaError]

\* The post of the current attempt is answered: postProxyJson, the
\* catch of withExponentialBackoff and the catch of requestResponsesApi
\* (background.js:1429-1443, 1397-1410).
SchemaPostSettles(answer) ==
  /\ fn.op = "requestResponsesApi" /\ fn.pc = "post"
  /\ LET error == ErrorOfAnswer(answer)
         failed == [fn EXCEPT !.errors = Append(@, error)]
     IN fn' = IF postProxyJson(answer.status).ok
              THEN [fn EXCEPT !.pc = "done", !.returned = TRUE]
              ELSE IF error.retriable /\ fn.attempt # BACKOFF_MAX_ATTEMPTS
              THEN [failed EXCEPT !.pc = "sleep"]
              ELSE IF fn.call = 1 /\ SchemaIssue(fn.useSchema, error)
              THEN [failed EXCEPT !.call = 2, !.attempt = 1, !.posts = Append(@, FALSE)]
              ELSE [failed EXCEPT !.pc = "done", !.thrown = error]
  /\ UNCHANGED <<store, fastMax, faults, now, settingsId, cache, storageQ, inflight, req, work,
                 def, resp, pushes, trace, clr, fresh>>

\* The sleep of withExponentialBackoff ends and the next attempt posts
\* the same payload (background.js:1439-1440, 1429-1431).
SchemaSleepDone ==
  /\ fn.op = "requestResponsesApi" /\ fn.pc = "sleep"
  /\ fn' = [fn EXCEPT !.pc = "post", !.attempt = @ + 1,
                      !.posts = Append(@, fn.posts[Len(fn.posts)])]
  /\ UNCHANGED <<store, fastMax, faults, now, settingsId, cache, storageQ, inflight, req, work,
                 def, resp, pushes, trace, clr, fresh>>

NextSchema == (\E answer \in SchemaAnswers : SchemaPostSettles(answer)) \/ SchemaSleepDone

SpecSchema == InitSchema /\ [][NextSchema]_vars

\* --------------------------------------- callModelForEasyRead alone
\* analyzeSingleSelection's call (background.js:531-539): attemptCount is
\* left to its default of 1 and the correction hint to "".  calls lists the
\* upstream calls issued, entered the attemptCount of every entry into
\* callModelForEasyRead, the recursive ones included.
InitLadder ==
  /\ InitProgram(FALSE)
  /\ fastMax = FAST_SINGLE_CALL_MAX_CHARS
  /\ \E selectedText \in {"plain", "long"}, singleAttempt \in BOOLEAN :
       LET step == callModelForEasyRead(selectedText, 1, "", singleAttempt)
       IN fn = [op |-> "callModelForEasyRead", selectedText |-> selectedText,
                model |-> chooseModelForText(LenOf(selectedText)),
                step |-> step, entered |-> <<1>>,
                calls |-> <<[stage |-> step.stage, attemptCount |-> step.attemptCount]>>]

\* A result of the attemptCount check (background.js:1094-1099).
StoppedResult(selectedText, parsed) ==
  parsed = buildLocalFallbackResult(selectedText, <<"stopped">>)

\* The upstream call the ladder awaits settles with out; the code runs to
\* its next upstream call, its return or its throw.
LadderSettle(out) ==
  /\ fn.op = "callModelForEasyRead" /\ fn.step.t = "call"
  /\ LET loc == LocOf(fn.step)
         step == EasyReadStep(fn.selectedText, fn.model, loc, out)
         reentered ==
           \/ step.t = "call" /\ step.attemptCount # loc.attemptCount
           \/ step.t = "ret" /\ StoppedResult(fn.selectedText, step.parsed)
     IN fn' = [fn EXCEPT
                 !.step = step,
                 !.entered = IF reentered THEN Append(@, loc.attemptCount + 1) ELSE @,
                 !.calls = IF step.t = "call"
                           THEN Append(@, [stage |-> step.stage,
                                           attemptCount |-> step.attemptCount])
                           ELSE @]
  /\ UNCHANGED <<store, fastMax, faults, now, settingsId, cache, storageQ, inflight, req, work,
                 def, resp, pushes, trace, clr, fresh>>

NextLadder == \E out \in ApiOutcomes : LadderSettle(out)

SpecLadder == InitLadder /\ [][NextLadder]_vars

\* ---------------------------------------- the primary ladders alone
\* A primary model call of the handler: callModelForEasyRead (the fast
\* path, analyzeSingleSelection) or analyzeExplanationOnlySelection.
\* fn.calls lists the upstream calls issued with the model each is sent
\* to; fn.answers lists how each settled: "error", "empty" (no output
\* text) or "text".
StageModel(stage, model) == IF stage = "larger" THEN MODEL_LONG_TEXT ELSE model

FirstStep(path, selectedText, singleAttempt) ==
  IF path = "explanationOnly" THEN Call("eoSchema", 1, "", FALSE)
  ELSE callModelForEasyRead(selectedText, 1, "", singleAttempt)

InitPrimary ==
  /\ InitProgram(FALSE)
  /\ fastMax = FAST_SINGLE_CALL_MAX_CHARS
  /\ \E selectedText \in {"plain", "long"}, path \in {"easyRead", "explanationOnly"},
        singleAttempt \in BOOLEAN :
       LET step == FirstStep(path, selectedText, singleAttempt)
           model == chooseModelForText(LenOf(selectedText))
       IN /\ path = "explanationOnly" => ~singleAttempt
          /\ fn = [op |-> "primary", path |-> path, selectedText |-> selectedText,
                   model |-> model, step |-> step,
                   calls |-> <<[stage |-> step.stage, model |-> StageModel(step.stage, model)]>>,
                   answers |-> <<>>]

AnswerKind(out) ==
  IF out.t = "err" THEN "error" ELSE IF HasOutputText(out) THEN "text" ELSE "empty"

\* The upstream call the ladder awaits settles with out
\* (background.js:578-615, 1101-1213).
PrimarySettle(out) ==
  /\ fn.op = "primary" /\ fn.step.t = "call"
  /\ LET loc == LocOf(fn.step)
         step == IF fn.path = "explanationOnly"
                 THEN ExplanationOnlyStep(fn.selectedText, loc, out)
                 ELSE EasyReadStep(fn.selectedText, fn.model, loc, out)
     IN fn' = [fn EXCEPT
                 !.step = step,
                 !.answers = Append(@, AnswerKind(out)),
                 !.calls = IF step.t = "call"
                           THEN Append(@, [stage |-> step.stage,
                                           model |-> StageModel(step.stage, fn.model)])
                           ELSE @]
  /\ UNCHANGED <<store, fastMax, faults, now, settingsId, cache, storageQ, inflight, req, work,
                 def, resp, pushes, trace, clr, fresh>>

NextPrimary == \E out \in ApiOutcomes : PrimarySettle(out)

SpecPrimary == InitPrimary /\ [][NextPrimary]_vars

\* ------------------------------ shouldRunSupplementalWordPass alone
\* The vocabulary entries the primary pass has left after
\* keepB2PlusWords, the number of difficulty candidates and the length
\* of the selection (background.js:545-549).
CurrentWordLists == UNION {[1..n -> {WordGood}] : n \in 0..MaxLimit}
CandidateCounts == 0..(SUPPLEMENTAL_MANY_CANDIDATES + MaxLimit)
SelectedTextLengths ==
  (SUPPLEMENTAL_MIN_CHARS - LengthSpan)..(SUPPLEMENTAL_MIN_CHARS + LengthSpan)

InitSupplemental ==
  /\ InitProgram(FALSE)
  /\ fastMax = FAST_SINGLE_CALL_MAX_CHARS
  /\ \E currentWords \in CurrentWordLists, candidateCount \in CandidateCounts,
        selectedTextLength \in SelectedTextLengths :
       fn = [op |-> "shouldRunSupplementalWordPass", currentWords |-> currentWords,
             candidateCount |-> candidateCount, selectedTextLength |-> selectedTextLength,
             pc |-> "call", needsSupplementalWords |-> FALSE]

\* const needsSupplementalWords = shouldRunSupplementalWordPass({..})
SupplementalDecide ==
  /\ fn.op = "shouldRunSupplementalWordPass" /\ fn.pc = "call"
  /\ fn' = [fn EXCEPT !.pc = "done",
                      !.needsSupplementalWords =
                        shouldRunSupplementalWordPass(fn.currentWords, fn.candidateCount,
                                                      fn.selectedTextLength)]
  /\ UNCHANGED <<store, fastMax, faults, now, settingsId, cache, storageQ, inflight, req, work,
                 def, resp, pushes, trace, clr, fresh>>

NextSupplemental == SupplementalDecide

SpecSupplemental == InitSupplemental /\ [][NextSupplemental]_vars

\* ------------------------------------------- mergeWordEntries alone
\* A word or lemma is a sequence of characters: a lower-case letter, an
\* upper-case letter, an apostrophe, or the mis-decoded apostrophe that
\* normalizeWordKey replaces (one unit here).  An item is a word entry,
\* or a value that is no object.
MisdecodedApostrophe == "mojibake"
MergeWords == {<<>>, <<"a">>, <<"A">>, <<"'", "a">>, <<MisdecodedApostrophe, "a">>, <<"'">>}
MergeLemmas == {<<>>, <<"b">>}
WordItem(word, lemma) == [object |-> TRUE, word |-> word, lemma |-> lemma]
NullItem == [object |-> FALSE, word |-> <<>>, lemma |-> <<>>]
MergeItems == {WordItem(w, l) : w \in MergeWords, l \in MergeLemmas} \cup {NullItem}
MergeLists == UNION {[1..n -> MergeItems] : n \in 0..MaxMergeLen}

ToLowerCase(word) == [i \in DOMAIN word |-> IF word[i] = "A" THEN "a" ELSE word[i]]
ReplaceMisdecoded(word) ==
  [i \in DOMAIN word |-> IF word[i] = MisdecodedApostrophe THEN "'" ELSE word[i]]
\* .replace(/^'+|'+$/g, "")
RECURSIVE StripApostrophes(_)
StripApostrophes(word) ==
  IF word = <<>> THEN <<>>
  ELSE IF Head(word) = "'" THEN StripApostrophes(Tail(word))
  ELSE IF word[Len(word)] = "'" THEN StripApostrophes(SubSeq(word, 1, Len(word) - 1))
  ELSE word

\* normalizeWordKey (background.js:977-982)
normalizeWordKey(word) == StripApostrophes(ReplaceMisdecoded(ToLowerCase(word)))

\* The lemma taken before the word.
MergeKey_LemmaFirst(item) ==
  IF normalizeWordKey(item.lemma) # <<>> THEN normalizeWordKey(item.lemma)
  ELSE normalizeWordKey(item.word)

\* const key = keyWord || keyLemma (background.js:1021-1023)
MergeKey(item) ==
  IF normalizeWordKey(item.word) # <<>> THEN normalizeWordKey(item.word)
  ELSE normalizeWordKey(item.lemma)

\* The loop of mergeWordEntries over items, merged and seen being what
\* the items before have left (background.js:1017-1029).
RECURSIVE MergeLoop(_, _, _)
MergeLoop(items, merged, seen) ==
  IF items = <<>> THEN merged
  ELSE LET item == Head(items)
       IN IF ~item.object \/ MergeKey(item) = <<>> \/ MergeKey(item) \in seen
          THEN MergeLoop(Tail(items), merged, seen)
          ELSE MergeLoop(Tail(items), Append(merged, item), seen \cup {MergeKey(item)})

\* mergeWordEntries (background.js:1013-1032)
mergeWordEntries(existingEntries, supplementalEntries) ==
  MergeLoop(existingEntries \o supplementalEntries, <<>>, {})

InitMerge ==
  /\ InitProgram(FALSE)
  /\ fastMax = FAST_SINGLE_CALL_MAX_CHARS
  /\ \E all \in MergeLists : \E n \in 0..Len(all) :
       fn = [op |-> "mergeWordEntries", existing |-> SubSeq(all, 1, n),
             supplemental |-> SubSeq(all, n + 1, Len(all)), pc |-> "merge",
             merged |-> <<>>, again |-> <<>>]

\* mergeWordEntries(existing, supplemental) is called.
Merge ==
  /\ fn.op = "mergeWordEntries" /\ fn.pc = "merge"
  /\ fn' = [fn EXCEPT !.pc = "again",
                      !.merged = mergeWordEntries(fn.existing, fn.supplemental)]
  /\ UNCHANGED <<store, fastMax, faults, now, settingsId, cache, storageQ, inflight, req, work,
                 def, resp, pushes, trace, clr, fresh>>

\* Its result is merged with an empty list.
MergeAgain ==
  /\ fn.op = "mergeWordEntries" /\ fn.pc = "again"
  /\ fn' = [fn EXCEPT !.pc = "done", !.again = mergeWordEntries(fn.merged, <<>>)]
  /\ UNCHANGED <<store, fastMax, faults, now, settingsId, cache, storageQ, inflight, req, work,
                 def, resp, pushes, trace, clr, fresh>>

NextMerge == Merge \/ MergeAgain

SpecMerge == InitMerge /\ [][NextMerge]_vars

\* ----------------------------------------- splitTextIntoChunks alone
\* A text is a sequence of characters; "\n" stands for any whitespace
\* character other than the space.
Chars == {"a", "b", " ", "\n"}
IsWhitespace(c) == c \in {" ", "\n"}
Texts == UNION {[1..n -> Chars] : n \in 0..MaxTextLen}

\* text.replace(/\s+/g, " ")
RECURSIVE ReplaceWhitespaceRuns(_)
ReplaceWhitespaceRuns(text) ==
  IF text = <<>> THEN <<>>
  ELSE IF ~IsWhitespace(Head(text)) THEN <<Head(text)>> \o ReplaceWhitespaceRuns(Tail(text))
  ELSE IF Len(text) > 1 /\ IsWhitespace(text[2]) THEN ReplaceWhitespaceRuns(Tail(text))
  ELSE <<" ">> \o ReplaceWhitespaceRuns(Tail(text))

\* text.trim()
RECURSIVE Trim(_)
Trim(text) ==
  IF text = <<>> THEN <<>>
  ELSE IF IsWhitespace(Head(text)) THEN Trim(Tail(text))
  ELSE IF IsWhitespace(text[Len(text)]) THEN Trim(SubSeq(text, 1, Len(text) - 1))
  ELSE text

\* text.split(" "): the pieces between spaces, empty ones included.
RECURSIVE SplitOnSpace(_, _)
SplitOnSpace(text, piece) ==
  IF text = <<>> THEN <<piece>>
  ELSE IF Head(text) = " " THEN <<piece>> \o SplitOnSpace(Tail(text), <<>>)
  ELSE SplitOnSpace(Tail(text), Append(piece, Head(text)))

\* list.join(" ")
RECURSIVE JoinWithSpace(_)
JoinWithSpace(list) ==
  IF list = <<>> THEN <<>>
  ELSE IF Len(list) = 1 THEN list[1]
  ELSE list[1] \o <<" ">> \o JoinWithSpace(Tail(list))

\* The remaining words left out of the last chunk.
RestOfWords_Dropped(current, words, i) == Trim(current)

\* background.js:751: [current, ...words.slice(i + 1)].join(" ").trim(),
\* with i counted from 1.
RestOfWords(current, words, i) ==
  Trim(JoinWithSpace(<<current>> \o SubSeq(words, i + 1, Len(words))))

\* splitTextIntoChunks(text, targetChars, maxChunks) entered: background.js:733-743.
splitTextIntoChunks(text, targetChars, maxChunks) ==
  LET normalized == Trim(ReplaceWhitespaceRuns(text))
  IN [op |-> "splitTextIntoChunks", text |-> text, targetChars |-> targetChars,
      maxChunks |-> maxChunks,
      words |-> IF normalized = <<>> THEN <<>> ELSE SplitOnSpace(normalized, <<>>),
      i |-> 1, current |-> <<>>, chunks |-> <<>>,
      pc |-> IF normalized = <<>> THEN "done" ELSE "loop"]

InitSplit ==
  /\ InitProgram(FALSE)
  /\ fastMax = FAST_SINGLE_CALL_MAX_CHARS
  /\ \E text \in Texts, targetChars \in 1..MaxTarget, maxChunks \in 1..MaxChunkCap :
       fn = splitTextIntoChunks(text, targetChars, maxChunks)

\* One turn of the for loop (background.js:745-763).
SplitWord ==
  /\ fn.op = "splitTextIntoChunks" /\ fn.pc = "loop" /\ fn.i <= Len(fn.words)
  /\ LET word == fn.words[fn.i]
         next == IF fn.current # <<>> THEN fn.current \o <<" ">> \o word ELSE word
         pushed == Append(fn.chunks, fn.current)
         rest == RestOfWords(word, fn.words, fn.i)
     IN fn' = IF Len(next) > fn.targetChars /\ fn.current # <<>>
              THEN IF Len(pushed) >= fn.maxChunks - 1
                   THEN [fn EXCEPT !.current = word, !.pc = "done",
                           !.chunks = IF rest # <<>> THEN Append(pushed, rest) ELSE pushed]
                   ELSE [fn EXCEPT !.current = word, !.chunks = pushed, !.i = @ + 1]
              ELSE [fn EXCEPT !.current = next, !.i = @ + 1]
  /\ UNCHANGED <<store, fastMax, faults, now, settingsId, cache, storageQ, inflight, req, work,
                 def, resp, pushes, trace, clr, fresh>>

\* The loop is left: the words in hand are the last chunk (background.js:765-769).
SplitEnd ==
  /\ fn.op = "splitTextIntoChunks" /\ fn.pc = "loop" /\ fn.i > Len(fn.words)
  /\ fn' = [fn EXCEPT !.pc = "done",
              !.chunks = IF fn.current # <<>> THEN Append(@, fn.current) ELSE @]
  /\ UNCHANGED <<store, fastMax, faults, now, settingsId, cache, storageQ, inflight, req, work,
                 def, resp, pushes, trace, clr, fresh>>

NextSplit == SplitWord \/ SplitEnd

SpecSplit == InitSplit /\ [][NextSplit]_vars

\* ------------------------------------------ mapWithConcurrency alone
\* The items are numbered from 1 (list[0] is item 1); nextIndex counts the
\* items taken.  A worker is at its await of mapper(item) ("await"), has
\* left its loop ("done") or has thrown what its mapper threw ("failed").
Max(a, b) == IF a > b THEN a ELSE b

\* No limit: one worker per item.
SafeLimit_PerItem(limit, length) == length

\* background.js:712
SafeLimit(limit, length) == Max(1, Min(limit, length))

\* What mapper(list[k], k) resolves with, and a slot of new Array(length)
\* that has not been assigned.
MapperResult(k) == <<"mapped", k>>
EmptySlot == <<"empty">>

\* The result stored at the place of the shared cursor.
StoreResult_AtCursor(pool, w) ==
  [pool EXCEPT !.results[pool.nextIndex] = MapperResult(pool.worker[w].current)]

\* results[current] = await mapper(list[current], current) (background.js:720)
StoreResult(pool, w) ==
  [pool EXCEPT !.results[pool.worker[w].current] = MapperResult(pool.worker[w].current)]

\* background.js:716-722 from the top of the while loop to the await.
WorkerTakes(pool, w) ==
  IF pool.nextIndex < pool.length
  THEN [pool EXCEPT !.nextIndex = @ + 1,
                    !.worker[w] = [pc |-> "await", current |-> pool.nextIndex + 1],
                    !.events = Append(@, <<"start", pool.nextIndex + 1>>)]
  ELSE [pool EXCEPT !.worker[w] = [pc |-> "done", current |-> 0]]

\* background.js:724-727: worker() is called safeLimit times, each call
\* running to its first await.
RECURSIVE StartWorkers(_, _)
StartWorkers(pool, w) ==
  IF w > pool.safeLimit THEN pool ELSE StartWorkers(WorkerTakes(pool, w), w + 1)

\* mapWithConcurrency(items, limit, mapper) entered, run to await Promise.all.
mapWithConcurrency(length, limit) ==
  IF length = 0
  THEN [op |-> "mapWithConcurrency", length |-> 0, limit |-> limit, safeLimit |-> 0,
        nextIndex |-> 0, worker |-> <<>>, events |-> <<>>, settled |-> "resolved",
        results |-> <<>>]
  ELSE StartWorkers(
         [op |-> "mapWithConcurrency", length |-> length, limit |-> limit,
          safeLimit |-> SafeLimit(limit, length), nextIndex |-> 0,
          worker |-> [w \in 1..SafeLimit(limit, length) |-> [pc |-> "new", current |-> 0]],
          events |-> <<>>, settled |-> "pending",
          results |-> [k \in 1..length |-> EmptySlot]], 1)

\* analyzeLongSelection's call (background.js:669-671) with MAX_CHUNK_CONCURRENCY,
\* and calls with other limits.
InitPool ==
  /\ InitProgram(FALSE)
  /\ fastMax = FAST_SINGLE_CALL_MAX_CHARS
  /\ \E length \in 0..MaxItems, limit \in 1..MaxLimit : fn = mapWithConcurrency(length, limit)

\* Promise.all(workers): rejected with the first rejection, resolved when
\* every worker has returned.
PromiseAll(pool) ==
  IF pool.settled # "pending" THEN pool.settled
  ELSE IF \E w \in DOMAIN pool.worker : pool.worker[w].pc = "failed" THEN "rejected"
  ELSE IF \A w \in DOMAIN pool.worker : pool.worker[w].pc = "done" THEN "resolved"
  ELSE "pending"

\* The mapper call that worker w awaits settles: the worker stores the
\* result and goes round its loop, or throws.
MapperSettles(w, ok) ==
  /\ fn.op = "mapWithConcurrency"
  /\ w \in DOMAIN fn.worker /\ fn.worker[w].pc = "await"
  /\ LET ended == [fn EXCEPT !.events =
                     Append(@, <<IF ok THEN "end" ELSE "throw", fn.worker[w].current>>)]
         after == IF ok THEN WorkerTakes(StoreResult(ended, w), w)
                  ELSE [ended EXCEPT !.worker[w] = [pc |-> "failed", current |-> 0]]
     IN fn' = [after EXCEPT !.settled = PromiseAll(after)]
  /\ UNCHANGED <<store, fastMax, faults, now, settingsId, cache, storageQ, inflight, req, work,
                 def, resp, pushes, trace, clr, fresh>>

NextPool == \E w \in 1..MaxItems, ok \in BOOLEAN : MapperSettles(w, ok)

SpecPool == InitPool /\ [][NextPool]_vars

\* ------------------------------------------ chooseModelForText alone
\* Lengths of accepted selections: 1, HARD_MAX_CHARS and those around
\* MODEL_NANO_MAX_CHARS.
RoutedLengths ==
  {1, HARD_MAX_CHARS}
    \cup ((MODEL_NANO_MAX_CHARS - LengthSpan)..(MODEL_NANO_MAX_CHARS + LengthSpan))

\* Two requests whose selections have the lengths drawn; neither has
\* reached background.js:226 yet.
InitRoute ==
  /\ InitProgram(FALSE)
  /\ fastMax = FAST_SINGLE_CALL_MAX_CHARS
  /\ \E a, b \in RoutedLengths :
       fn = [op |-> "chooseModelForText", length |-> <<a, b>>, model |-> <<"", "">>]

\* background.js:226: selectedModel, passed as model to the analysis
\* function and by it as payload.model of its first requestResponsesApi
\* call (275, 315, 581, 1109, 1369).
RouteRequest(i) ==
  /\ fn.op = "chooseModelForText" /\ fn.model[i] = ""
  /\ fn' = [fn EXCEPT !.model[i] = chooseModelForText(fn.length[i])]
  /\ UNCHANGED <<store, fastMax, faults, now, settingsId, cache, storageQ, inflight, req, work,
                 def, resp, pushes, trace, clr, fresh>>

NextRoute == \E i \in 1..2 : RouteRequest(i)

SpecRoute == InitRoute /\ [][NextRoute]_vars

\* ------------------------------------------ the storage layer alone
\* A caller passes (cacheKey, responsePayload) to saveCachedResponse,
\* which runs to await getCacheMap().
StoreSave(c, cacheKey, responsePayload) ==
  /\ store.cli[c].pc = "idle"
  /\ store.ops < MaxStoreOps
  /\ store' = [store EXCEPT
       !.cli[c] = [IdleCli EXCEPT !.pc = "saveGet", !.op = "save", !.key = cacheKey,
                                  !.response = responsePayload],
       !.ops = @ + 1]
  /\ storageQ' = Append(storageQ, <<"cli", c>>)
  /\ UNCHANGED <<fn, fastMax, faults, now, settingsId, cache, inflight, req, work, def, resp,
                 pushes, trace, clr, fresh>>

StoreSaveGetDone(c) ==
  /\ store.cli[c].pc = "saveGet"
  /\ Head1(storageQ) = <<"cli", c>>
  /\ store' = [store EXCEPT !.cli[c] = [@ EXCEPT !.pc = "saveSet", !.newMap =
       saveCachedResponse(cache, store.cli[c].key, NoRequest, store.cli[c].response, now)]]
  /\ storageQ' = Append(Tail(storageQ), <<"cli", c>>)
  /\ UNCHANGED <<fn, fastMax, faults, now, settingsId, cache, inflight, req, work, def, resp,
                 pushes, trace, clr, fresh>>

\* The save completes: it is now the last save made for its key.
StoreSaveSetDone(c) ==
  /\ store.cli[c].pc = "saveSet"
  /\ Head1(storageQ) = <<"cli", c>>
  /\ cache' = store.cli[c].newMap
  /\ store' = [store EXCEPT
       !.cli[c] = IdleCli,
       !.lastSaved[store.cli[c].key] = [found |-> TRUE, response |-> store.cli[c].response]]
  /\ storageQ' = Tail(storageQ)
  /\ UNCHANGED <<fn, fastMax, faults, now, settingsId, inflight, req, work, def, resp, pushes,
                 trace, clr, fresh>>

\* A caller calls getCachedResponse(cacheKey), which runs to await getCacheMap().
StoreGet(c, cacheKey) ==
  /\ store.cli[c].pc = "idle"
  /\ store.ops < MaxStoreOps
  /\ store' = [store EXCEPT
       !.cli[c] = [IdleCli EXCEPT !.pc = "get", !.op = "get", !.key = cacheKey],
       !.ops = @ + 1]
  /\ storageQ' = Append(storageQ, <<"cli", c>>)
  /\ UNCHANGED <<fn, fastMax, faults, now, settingsId, cache, inflight, req, work, def, resp,
                 pushes, trace, clr, fresh>>

\* getCachedResponse returns; the caller notes the last completed save.
StoreGetDone(c) ==
  /\ store.cli[c].pc = "get"
  /\ Head1(storageQ) = <<"cli", c>>
  /\ store' = [store EXCEPT !.cli[c] = [@ EXCEPT !.pc = "idle",
       !.got = getCachedResponse(cache, store.cli[c].key, now),
       !.lastSaved = store.lastSaved[store.cli[c].key]]]
  /\ storageQ' = Tail(storageQ)
  /\ UNCHANGED <<fn, fastMax, faults, now, settingsId, cache, inflight, req, work, def, resp,
                 pushes, trace, clr, fresh>>

NextStore ==
  \/ \E c \in Cli, k \in StoreKeys, response \in StoreResponses : StoreSave(c, k, response)
  \/ \E c \in Cli : StoreSaveGetDone(c)
  \/ \E c \in Cli : StoreSaveSetDone(c)
  \/ \E c \in Cli, k \in StoreKeys : StoreGet(c, k)
  \/ \E c \in Cli : StoreGetDone(c)
  \/ \E c \in Clr : ClearCache(c)
  \/ \E c \in Clr : ClearCacheDone(c)
  \/ Tick

\* lib/storage.js under concurrent callers, cache clearing and time.
SpecStore == Init /\ [][NextStore]_vars

\* ------------------------------- clearCache among storage callers
\* The callers of SpecStore and one clear-cache command; when the
\* command arrives, fn keeps what storage and the callers were.
ClearCacheNoted(c) ==
  /\ ClearCacheIssued(c)
  /\ fn' = [op |-> "clearCache", cache |-> cache, store |-> store]

NextClear ==
  \/ \E c \in Cli, k \in StoreKeys, response \in StoreResponses : StoreSave(c, k, response)
  \/ \E c \in Cli : StoreSaveGetDone(c)
  \/ \E c \in Cli : StoreSaveSetDone(c)
  \/ \E c \in Cli, k \in StoreKeys : StoreGet(c, k)
  \/ \E c \in Cli : StoreGetDone(c)
  \/ \E c \in Clr : ClearCacheNoted(c)
  \/ \E c \in Clr : ClearCacheDone(c)

SpecClear == Init /\ [][NextClear]_vars

\* ------------------------------------- the storage layer and the clock
\* One caller of saveCachedResponse / getCachedResponse, the onInstalled
\* listener's pruneExpiredCacheEntries (background.js:155-159) and a clock
\* that advances by one millisecond, by CACHE_TTL_MS less one, or by
\* CACHE_TTL_MS.
Durations == {1, CACHE_TTL_MS - 1, CACHE_TTL_MS}
IdlePrune == [pc |-> "idle", newMap |-> EmptyMap]

InitTtl ==
  /\ InitProgram(FALSE)
  /\ fastMax = FAST_SINGLE_CALL_MAX_CHARS
  /\ fn = [op |-> "clock", advances |-> 0, prune |-> IdlePrune]

\* Date.now() moves on by d.  The clock stops at twice CACHE_TTL_MS, which
\* keeps every expiresAt below 2^31.
Advance(d) ==
  /\ fn.op = "clock" /\ fn.advances < MaxAdvances
  /\ now + d <= 2 * CACHE_TTL_MS
  /\ now' = now + d
  /\ fn' = [fn EXCEPT !.advances = @ + 1]
  /\ UNCHANGED <<store, fastMax, faults, settingsId, cache, storageQ, inflight, req, work, def,
                 resp, pushes, trace, clr, fresh>>

\* pruneExpiredCacheEntries() is called and runs to await getCacheMap().
PruneStart ==
  /\ fn.op = "clock" /\ fn.prune.pc = "idle"
  /\ fn' = [fn EXCEPT !.prune.pc = "get"]
  /\ storageQ' = Append(storageQ, <<"prune", 1>>)
  /\ UNCHANGED <<store, fastMax, faults, now, settingsId, cache, inflight, req, work, def, resp,
                 pushes, trace, clr, fresh>>

\* getCacheMap() answers: expired entries are deleted from the map in hand
\* and the map is written back if one was (part_004:35-47).
PruneGetDone ==
  /\ fn.op = "clock" /\ fn.prune.pc = "get"
  /\ Head1(storageQ) = <<"prune", 1>>
  /\ LET pruned == pruneExpiredCacheEntries(cache, now)
     IN IF pruned # cache
        THEN /\ fn' = [fn EXCEPT !.prune = [pc |-> "set", newMap |-> pruned]]
             /\ storageQ' = Append(Tail(storageQ), <<"prune", 1>>)
        ELSE /\ fn' = [fn EXCEPT !.prune.pc = "done"]
             /\ storageQ' = Tail(storageQ)
  /\ UNCHANGED <<store, fastMax, faults, now, settingsId, cache, inflight, req, work, def, resp,
                 pushes, trace, clr, fresh>>

\* chrome.storage.local.set of pruneExpiredCacheEntries answers.
PruneSetDone ==
  /\ fn.op = "clock" /\ fn.prune.pc = "set"
  /\ Head1(storageQ) = <<"prune", 1>>
  /\ cache' = fn.prune.newMap
  /\ fn' = [fn EXCEPT !.prune = [pc |-> "done", newMap |-> EmptyMap]]
  /\ storageQ' = Tail(storageQ)
  /\ UNCHANGED <<store, fastMax, faults, now, settingsId, inflight, req, work, def, resp,
                 pushes, trace, clr, fresh>>

NextTtl ==
  \/ \E k \in StoreKeys, response \in StoreResponses : StoreSave(1, k, response)
  \/ StoreSaveGetDone(1)
  \/ StoreSaveSetDone(1)
  \/ \E k \in StoreKeys : StoreGet(1, k)
  \/ StoreGetDone(1)
  \/ \E d \in Durations : Advance(d)
  \/ PruneStart
  \/ PruneGetDone
  \/ PruneSetDone

\* lib/storage.js with entries that reach and pass their expiry.
SpecTtl == InitTtl /\ [][NextTtl]_vars

\* ------------------------------------------------ the content script
\* The content script (background.js:1865-2356) as far as results reach
\* the panel.  A requestId of a message is any value: str is FALSE for a
\* value that is not a string, pad counts whitespace around text.  Results
\* are opaque; a panel holds what was rendered into it.
IdValue(str, text, pad) == [str |-> str, text |-> text, pad |-> pad]
UiIds == {"r1", "r2"}
UiResults == {"R1", "R2"}
MessageIds ==
  {IdValue(FALSE, "", 0), IdValue(TRUE, "", 0), IdValue(TRUE, "", 1)}
    \cup {IdValue(TRUE, t, pad) : t \in UiIds, pad \in {0, 1}}
WordsUpdates ==
  [requestId : MessageIds, error : {"", "Words are taking too long."},
   result : UiResults \cup {"none"}, explanationMode : {"", "detailed"}]
NoUpdate ==
  [requestId |-> IdValue(FALSE, "", 0), error |-> "", result |-> "none", explanationMode |-> ""]

\* background.js:1873-1882 and the empty panels.
InitUi ==
  [currentRequestId |-> "", lastResult |-> "none", explanationMode |-> "balanced",
   explanationPanel |-> <<>>, wordsPanel |-> <<>>, status |-> ""]

InitContent ==
  /\ InitProgram(FALSE)
  /\ fastMax = FAST_SINGLE_CALL_MAX_CHARS
  /\ fn = [op |-> "content", ui |-> InitUi, used |-> {}, pending |-> {}, updates |-> 0,
           message |-> NoUpdate]

\* setLoading(false) (background.js:2239-2245)
SetLoadingFalse(ui) ==
  IF ui.status \in {"", "Working"} THEN [ui EXCEPT !.status = "Ready"] ELSE ui

\* renderError (background.js:2226-2232)
RenderError(ui) ==
  [ui EXCEPT !.explanationPanel = <<"error">>, !.wordsPanel = <<"No data.">>,
             !.status = "Error"]

\* runExplain with a selection of accepted length, to its await
\* (background.js:2059-2095); createRequestId gives an id not used before.
RunExplain(id) ==
  /\ fn.op = "content" /\ id \notin fn.used
  /\ fn' = [fn EXCEPT !.used = @ \cup {id}, !.pending = @ \cup {id},
              !.ui = [@ EXCEPT !.currentRequestId = id, !.status = "Working",
                               !.explanationPanel = <<"loading">>, !.wordsPanel = <<>>]]
  /\ UNCHANGED <<store, fastMax, faults, now, settingsId, cache, storageQ, inflight, req, work,
                 def, resp, pushes, trace, clr, fresh>>

\* The response to the message of request id arrives (background.js:2096-2115).
ResponseArrives(id, ok, result, wordsPending) ==
  /\ fn.op = "content" /\ id \in fn.pending
  /\ LET ui == fn.ui
         shown == [ui EXCEPT !.lastResult = result,
                             !.explanationPanel = <<"explanation", result>>,
                             !.wordsPanel = <<"words", result, wordsPending>>,
                             !.status = "Fresh"]
     IN fn' = [fn EXCEPT !.pending = @ \ {id},
                 !.ui = SetLoadingFalse(IF ~ok THEN RenderError(ui)
                                        ELSE IF id # ui.currentRequestId THEN ui
                                        ELSE shown)]
  /\ UNCHANGED <<store, fastMax, faults, now, settingsId, cache, storageQ, inflight, req, work,
                 def, resp, pushes, trace, clr, fresh>>

\* background.js:2199-2200
IncomingRequestId(requestId) == IF requestId.str THEN requestId.text ELSE ""

\* Only an empty id is ignored.
ShouldIgnoreUpdate_EmptyOnly(incomingRequestId, currentRequestId) == incomingRequestId = ""

\* background.js:2201
ShouldIgnoreUpdate(incomingRequestId, currentRequestId) ==
  incomingRequestId = "" \/ incomingRequestId # currentRequestId

\* handleWordsUpdate (background.js:2198-2224)
handleWordsUpdate(ui, message) ==
  IF ShouldIgnoreUpdate(IncomingRequestId(message.requestId), ui.currentRequestId) THEN ui
  ELSE IF message.error # ""
  THEN [ui EXCEPT !.wordsPanel = <<message.error>>, !.status = "words update failed"]
  ELSE IF message.result = "none" THEN ui
  ELSE [ui EXCEPT !.lastResult = message.result,
                  !.explanationMode = IF message.explanationMode # ""
                                      THEN normalizeExplanationMode(message.explanationMode)
                                      ELSE @,
                  !.explanationPanel = <<"explanation", message.result>>,
                  !.wordsPanel = <<"words", message.result, FALSE>>,
                  !.status = "words updated"]

\* onMessage "easyread-words-update" (background.js:1990-1992)
WordsUpdateArrives(message) ==
  /\ fn.op = "content" /\ fn.updates < MaxUpdates
  /\ fn' = [fn EXCEPT !.updates = @ + 1, !.message = message,
                      !.ui = handleWordsUpdate(fn.ui, message)]
  /\ UNCHANGED <<store, fastMax, faults, now, settingsId, cache, storageQ, inflight, req, work,
                 def, resp, pushes, trace, clr, fresh>>

NextContent ==
  \/ \E id \in UiIds : RunExplain(id)
  \/ \E id \in UiIds, ok \in BOOLEAN, result \in UiResults, wordsPending \in BOOLEAN :
       ResponseArrives(id, ok, result, wordsPending)
  \/ \E message \in WordsUpdates : WordsUpdateArrives(message)

SpecContent == InitContent /\ [][NextContent]_vars

\* ------------------------------------------------- the proxy server
\* part_000 is the proxy (server/index.js).  JSON values of a request
\* body are records of one shape: a string with its text and whether
\* whitespace surrounds it, a number in tenths, null, or no value.
Js(type, text, pad, tenths) == [type |-> type, text |-> text, pad |-> pad, tenths |-> tenths]
JsUndefined == Js("undefined", "", 0, 0)
JsNull == Js("null", "", 0, 0)
JsString(text, pad) == Js("string", text, pad, 0)
JsNumber(tenths) == Js("number", "", 0, tenths)

\* The allow-list of the default environment (part_000:6-11).
ALLOWED_MODELS == {"gpt-5-nano", "gpt-5-mini"}

\* new Date(now).toISOString().slice(0, 10) names the UTC day of now.
MS_PER_DAY == 24 * 60 * 60 * 1000
DayKey(nowMs) == nowMs \div MS_PER_DAY

\* String(value || "").trim() of a header or a JSON value.
TrimmedString(value) ==
  IF value.type = "string" THEN value.text
  ELSE IF value.type = "number" /\ value.tenths # 0 THEN "a number"
  ELSE ""

\* Math.floor of a number kept in tenths.
Floor(tenths) == tenths \div 10

\* A payload object of the body; sampling: temperature, top_p,
\* frequency_penalty or presence_penalty is set.
PayloadObject(model, maxOutputTokens, stored, sampling) ==
  [kind |-> "object", model |-> model, max_output_tokens |-> maxOutputTokens,
   store |-> stored, sampling |-> sampling]
NoPayload == [kind |-> "null", model |-> JsUndefined, max_output_tokens |-> JsUndefined,
              store |-> "undefined", sampling |-> FALSE]
ArrayPayload == [NoPayload EXCEPT !.kind = "array"]

\* The clamp left out.
ClampMaxOutputTokens_Floor(value) ==
  IF value.type = "number" THEN JsNumber(10 * Floor(value.tenths)) ELSE value

\* part_000:195-197
ClampMaxOutputTokens(value) ==
  IF value.type = "number"
  THEN JsNumber(10 * Max(64, IF 2000 < Floor(value.tenths) THEN 2000 ELSE Floor(value.tenths)))
  ELSE value

\* sanitizeResponsesPayload (part_000:183-200); NoPayload is its null.
sanitizeResponsesPayload(payload) ==
  IF payload.kind # "object" THEN NoPayload
  ELSE [payload EXCEPT !.store = "false", !.sampling = FALSE,
                       !.max_output_tokens = ClampMaxOutputTokens(@)]

\* Any model is let through.
ModelIsAllowed_Any(model) == TRUE

\* part_000:96
ModelIsAllowed(model) == model \in ALLOWED_MODELS

\* isAllowedExtension (part_000:202-213)
isAllowedExtension(config, request) ==
  \/ config.allowedExtensionIds = {}
  \/ /\ request.extensionId # ""
     /\ request.extensionId \in config.allowedExtensionIds

\* The key of checkRateLimit (part_000:216-218).
RateKey(request) ==
  <<IF request.clientId = "" THEN "anon" ELSE request.clientId, "|", request.remoteAddress>>

NoRateEntry == [present |-> FALSE, windowResetAt |-> 0, windowCount |-> 0, dayKey |-> 0,
                dayCount |-> 0]

\* part_000:223-231
EntryOf(rateMap, key, config, nowMs) ==
  IF rateMap[key].present THEN rateMap[key]
  ELSE [present |-> TRUE, windowResetAt |-> nowMs + config.rateWindowMs, windowCount |-> 0,
        dayKey |-> DayKey(nowMs), dayCount |-> 0]

\* The window count cleared by every request.
ResetWindow_Always(entry, config, nowMs) ==
  IF nowMs >= entry.windowResetAt
  THEN [entry EXCEPT !.windowResetAt = nowMs + config.rateWindowMs, !.windowCount = 0]
  ELSE [entry EXCEPT !.windowCount = 0]

\* part_000:233-236
ResetWindow(entry, config, nowMs) ==
  IF nowMs >= entry.windowResetAt
  THEN [entry EXCEPT !.windowResetAt = nowMs + config.rateWindowMs, !.windowCount = 0]
  ELSE entry

\* part_000:238-241
ResetDay(entry, nowMs) ==
  IF entry.dayKey # DayKey(nowMs)
  THEN [entry EXCEPT !.dayKey = DayKey(nowMs), !.dayCount = 0]
  ELSE entry

\* part_000:243
OverLimit(entry, config) ==
  entry.windowCount >= config.rateWindowMax \/ entry.dayCount >= config.rateDayMax

\* Only the window count is incremented.
Admit_WindowOnly(entry) == [entry EXCEPT !.windowCount = @ + 1]

\* part_000:248-249
Admit(entry) == [entry EXCEPT !.windowCount = @ + 1, !.dayCount = @ + 1]

\* Math.max(1, Math.ceil((entry.windowResetAt - now) / 1000)) (part_000:244)
RetryAfterSec(entry, nowMs) == Max(1, (entry.windowResetAt - nowMs + 999) \div 1000)

\* checkRateLimit (part_000:215-251): its answer and the rateMap it leaves.
checkRateLimit(rateMap, request, config, nowMs) ==
  LET key == RateKey(request)
      entry == ResetDay(ResetWindow(EntryOf(rateMap, key, config, nowMs), config, nowMs), nowMs)
  IN IF OverLimit(entry, config)
     THEN [ok |-> FALSE, retryAfterSec |-> RetryAfterSec(entry, nowMs),
           rateMap |-> [rateMap EXCEPT ![key] = entry]]
     ELSE [ok |-> TRUE, retryAfterSec |-> 0, rateMap |-> [rateMap EXCEPT ![key] = Admit(entry)]]

\* ------------------------------------------------ /api/explain alone
\* fn.conn[c] is one HTTP exchange of handleExplain: waiting for its
\* body ("body"), waiting for the provider ("fetch") or answered
\* ("done"); forwarded is the payload sent to the provider, calls the
\* number of provider calls of the exchange.
Conn == 1..MaxConns

RateClientIds == {"", "c1"}
RemoteAddresses == {"ip1"}
RateKeys == {<<c, "|", ip>> : c \in {"anon", "c1"}, ip \in RemoteAddresses}
EmptyRateMap == [k \in RateKeys |-> NoRateEntry]

PayloadModels ==
  { JsUndefined, JsString("gpt-5-nano", 0), JsString("gpt-5-mini", 1), JsString("gpt-4o", 0),
    JsString("", 1) }
PayloadTokens ==
  { JsUndefined, JsNull, JsString("5000", 0), JsNumber(0 - 5), JsNumber(639), JsNumber(12005),
    JsNumber(20005) }
Bodies ==
  { [read |-> why, payload |-> NoPayload] :
      why \in {"ok", "Request body too large", "Invalid JSON body"} }
    \cup {[read |-> "ok", payload |-> ArrayPayload]}
    \cup { [read |-> "ok", payload |-> PayloadObject(model, tokens, "true", TRUE)] :
             model \in PayloadModels, tokens \in PayloadTokens }
ProxyRequest(extensionId, clientId, remoteAddress, body) ==
  [extensionId |-> extensionId, clientId |-> clientId, remoteAddress |-> remoteAddress,
   body |-> body]
ExplainRequests ==
  {ProxyRequest(e, "c1", "ip1", body) : e \in {"", "ext1"}, body \in Bodies}
NoProxyRequest == ProxyRequest("", "", "", [read |-> "ok", payload |-> NoPayload])
\* What the provider answers; 0 is a network error.
ProviderStatuses == {0, 200, 400, 500}

ExplainConfig ==
  [allowedExtensionIds |-> {"ext1"}, rateWindowMs |-> RATE_LIMIT_WINDOW_MS,
   rateWindowMax |-> 1, rateDayMax |-> 2]

IdleConn == [pc |-> "idle", request |-> NoProxyRequest, status |-> 0, forwarded |-> NoPayload,
             calls |-> 0]

InitExplain ==
  /\ InitProgram(FALSE)
  /\ fastMax = FAST_SINGLE_CALL_MAX_CHARS
  /\ fn = [op |-> "explain", config |-> ExplainConfig, rateMap |-> EmptyRateMap, clock |-> 0,
           waits |-> 0, conn |-> [c \in Conn |-> IdleConn]]

\* sendJson and return (part_000:277-285).
Answered(conn, status) == [conn EXCEPT !.pc = "done", !.status = status]

\* handleExplain to its first await (part_000:65-83).
ExplainArrives(c, request) ==
  /\ fn.op = "explain" /\ fn.conn[c].pc = "idle"
  /\ LET rate == checkRateLimit(fn.rateMap, request, fn.config, fn.clock)
         conn == [fn.conn[c] EXCEPT !.request = request]
     IN IF ~isAllowedExtension(fn.config, request)
        THEN fn' = [fn EXCEPT !.conn[c] = Answered(conn, 403)]
        ELSE IF ~rate.ok
        THEN fn' = [fn EXCEPT !.rateMap = rate.rateMap, !.conn[c] = Answered(conn, 429)]
        ELSE fn' = [fn EXCEPT !.rateMap = rate.rateMap, !.conn[c] = [conn EXCEPT !.pc = "body"]]
  /\ UNCHANGED <<store, fastMax, faults, now, settingsId, cache, storageQ, inflight, req, work,
                 def, resp, pushes, trace, clr, fresh>>

\* readJsonBody has settled: handleExplain to the fetch (part_000:83-110).
ExplainBodyRead(c) ==
  /\ fn.op = "explain" /\ fn.conn[c].pc = "body"
  /\ LET conn == fn.conn[c]
         body == conn.request.body
         payload == sanitizeResponsesPayload(body.payload)
         model == TrimmedString(payload.model)
     IN IF body.read # "ok" \/ payload = NoPayload \/ ~ModelIsAllowed(model)
        THEN fn' = [fn EXCEPT !.conn[c] = Answered(conn, 400)]
        ELSE fn' = [fn EXCEPT !.conn[c] =
                      [conn EXCEPT !.pc = "fetch", !.calls = @ + 1,
                                   !.forwarded = [payload EXCEPT !.model = JsString(model, 0)]]]
  /\ UNCHANGED <<store, fastMax, faults, now, settingsId, cache, storageQ, inflight, req, work,
                 def, resp, pushes, trace, clr, fresh>>

\* The fetch has settled (part_000:112-124).
ExplainProviderSettles(c, status) ==
  /\ fn.op = "explain" /\ fn.conn[c].pc = "fetch"
  /\ fn' = [fn EXCEPT !.conn[c] = Answered(@, IF status = 0 THEN 502 ELSE status)]
  /\ UNCHANGED <<store, fastMax, faults, now, settingsId, cache, storageQ, inflight, req, work,
                 def, resp, pushes, trace, clr, fresh>>

\* Date.now() of the server moves on by a window.
ExplainWait ==
  /\ fn.op = "explain" /\ fn.waits < MaxTicks
  /\ fn' = [fn EXCEPT !.waits = @ + 1, !.clock = @ + fn.config.rateWindowMs]
  /\ UNCHANGED <<store, fastMax, faults, now, settingsId, cache, storageQ, inflight, req, work,
                 def, resp, pushes, trace, clr, fresh>>

NextExplain ==
  \/ \E c \in Conn, request \in ExplainRequests : ExplainArrives(c, request)
  \/ \E c \in Conn : ExplainBodyRead(c)
  \/ \E c \in Conn, status \in ProviderStatuses : ExplainProviderSettles(c, status)
  \/ ExplainWait

SpecExplain == InitExplain /\ [][NextExplain]_vars

\* ---------------------------------------------- checkRateLimit alone
\* Requests of both endpoints reach checkRateLimit (part_000:70, 132);
\* fn.log keeps each admitted request: its key, its Date.now() and the
\* windowResetAt of the window that admitted it.
RateConfigs ==
  { [allowedExtensionIds |-> {}, rateWindowMs |-> RATE_LIMIT_WINDOW_MS, rateWindowMax |-> w,
     rateDayMax |-> d] : w \in 1..MaxWindowMax, d \in 1..MaxDayMax }
RateRequests ==
  { ProxyRequest("", c, ip, [read |-> "ok", payload |-> NoPayload]) :
      c \in RateClientIds, ip \in RemoteAddresses }
Waits == {1, RATE_LIMIT_WINDOW_MS - 1, MS_PER_DAY - RATE_LIMIT_WINDOW_MS}
NoAnswerYet == [ok |-> TRUE, retryAfterSec |-> 0, key |-> <<>>]

InitRate ==
  /\ InitProgram(FALSE)
  /\ fastMax = FAST_SINGLE_CALL_MAX_CHARS
  /\ \E config \in RateConfigs :
       fn = [op |-> "rate", config |-> config, rateMap |-> EmptyRateMap, clock |-> 0,
             waits |-> 0, arrivals |-> 0, log |-> <<>>, last |-> NoAnswerYet]

\* A request of /api/explain or /api/moderate arrives: the handler to
\* the answer of checkRateLimit (part_000:65-79, 127-141).
RateRequestArrives(request) ==
  /\ fn.op = "rate" /\ fn.arrivals < MaxArrivals
  /\ isAllowedExtension(fn.config, request)
  /\ LET rate == checkRateLimit(fn.rateMap, request, fn.config, fn.clock)
         key == RateKey(request)
     IN fn' = [fn EXCEPT !.arrivals = @ + 1, !.rateMap = rate.rateMap,
                 !.last = [ok |-> rate.ok, retryAfterSec |-> rate.retryAfterSec, key |-> key],
                 !.log = IF rate.ok
                         THEN Append(@, [key |-> key, at |-> fn.clock,
                                         windowResetAt |-> rate.rateMap[key].windowResetAt])
                         ELSE @]
  /\ UNCHANGED <<store, fastMax, faults, now, settingsId, cache, storageQ, inflight, req, work,
                 def, resp, pushes, trace, clr, fresh>>

\* Date.now() of the server moves on by d.
RateWait(d) ==
  /\ fn.op = "rate" /\ fn.waits < MaxWaits
  /\ fn' = [fn EXCEPT !.waits = @ + 1, !.clock = @ + d]
  /\ UNCHANGED <<store, fastMax, faults, now, settingsId, cache, storageQ, inflight, req, work,
                 def, resp, pushes, trace, clr, fresh>>

NextRate ==
  \/ \E request \in RateRequests : RateRequestArrives(request)
  \/ \E d \in Waits : RateWait(d)

SpecRate == InitRate /\ [][NextRate]_vars

\* ------------------------------------------------ buildCacheKey alone
\* Strings are sequences of UTF-16 code units.  A page origin or a fixed
\* name is one unit that holds no "|" (window.location.origin,
\* background.js:2092; a mode, a model, MODEL_VERSION); a selected text
\* is made of a letter, "|", U+FFFD and an unpaired surrogate.
LoneSurrogate == "uD800"
ReplacementChar == "uFFFD"
KeyChars == {"a", "|", ReplacementChar, LoneSurrogate}
KeyOrigins == {<<"https://a.example">>, <<"https://b.example">>}
KeyTexts == UNION {[1..n -> KeyChars] : n \in 1..MaxKeyTextLen}
KeyTuples ==
  [pageOrigin : KeyOrigins, selectedText : KeyTexts, explanationMode : EXPLANATION_MODES]

\* [..].join("||") (background.js:493-499)
JoinParts(parts) ==
  parts.pageOrigin \o <<"|", "|">> \o parts.selectedText \o <<"|", "|">>
    \o <<parts.explanationMode>> \o <<"|", "|">> \o <<parts.model>> \o <<"|", "|">>
    \o <<parts.modelVersion>>

\* new TextEncoder().encode(input): the UTF-8 bytes of input, an
\* unpaired surrogate encoded as U+FFFD (background.js:504).
TextEncoderEncode(input) ==
  [i \in DOMAIN input |-> IF input[i] = LoneSurrogate THEN ReplacementChar ELSE input[i]]

\* SHA-256 of input, taken as injective on the bytes (background.js:503-508).
sha256(input) == TextEncoderEncode(input)

\* buildCacheKey of a request (background.js:226-236, 492-501).
CacheKeyOf(tuple) ==
  sha256(JoinParts([pageOrigin |-> tuple.pageOrigin, selectedText |-> tuple.selectedText,
                    explanationMode |-> tuple.explanationMode,
                    model |-> chooseModelForText(Len(tuple.selectedText)),
                    modelVersion |-> MODEL_VERSION]))

NoHit == [found |-> FALSE, request |-> <<>>, storedBy |-> <<>>]

\* fn.entries: the cache, each entry with the request that stored it;
\* fn.hit: the last lookup.
InitKey ==
  /\ InitProgram(FALSE)
  /\ fastMax = FAST_SINGLE_CALL_MAX_CHARS
  /\ fn = [op |-> "key", entries |-> {}, saves |-> 0, hit |-> NoHit]

\* A request stores its result: saveCachedResponse(cacheKey, ..)
\* (background.js:296, 337, 388, 1490; part_004:59-72).
KeySave(tuple) ==
  /\ fn.op = "key" /\ fn.saves < MaxSaves
  /\ fn' = [fn EXCEPT !.saves = @ + 1,
              !.entries = {e \in @ : e.key # CacheKeyOf(tuple)}
                            \cup {[key |-> CacheKeyOf(tuple), storedBy |-> tuple]}]
  /\ UNCHANGED <<store, fastMax, faults, now, settingsId, cache, storageQ, inflight, req, work,
                 def, resp, pushes, trace, clr, fresh>>

\* A request looks its key up: getCachedResponse(cacheKey)
\* (background.js:229-252).
KeyLookup(tuple) ==
  /\ fn.op = "key"
  /\ fn' = [fn EXCEPT !.hit =
              IF \E e \in fn.entries : e.key = CacheKeyOf(tuple)
              THEN [found |-> TRUE, request |-> tuple,
                    storedBy |-> (CHOOSE e \in fn.entries : e.key = CacheKeyOf(tuple)).storedBy]
              ELSE NoHit]
  /\ UNCHANGED <<store, fastMax, faults, now, settingsId, cache, storageQ, inflight, req, work,
                 def, resp, pushes, trace, clr, fresh>>

NextKey ==
  \/ \E tuple \in KeyTuples : KeySave(tuple)
  \/ \E tuple \in KeyTuples : KeyLookup(tuple)

SpecKey == InitKey /\ [][NextKey]_vars

\* ================================================================ claims
Began(r) == req[r].pc # "idle"
Valid(r) == Began(r) /\ LenOf(SelectedText(r)) > 0 /\ LenOf(SelectedText(r)) <= HARD_MAX_CHARS
Issued(r) == Did(trace[r], "upstream")
SameFingerprint(a, b) == a # b /\ Valid(a) /\ Valid(b) /\ KeyOf(req[a].msg) = KeyOf(req[b].msg)
SameFastFingerprint(a, b) == SameFingerprint(a, b) /\ IsFastSingleCallPath(a)
FailedForGood(r) ==
  work[r].state = "rejected" /\ ~isRecoverableModelOutputError(work[r].error)

\* C1 as stated: of two fast-path requests with the same fingerprint, the
\* second starting while the first is in progress, at most one issues
\* upstream calls.
C1_OnlyOnePipeline ==
  \A a, b \in Req :
    SameFastFingerprint(a, b) /\ a \in req[b].overlaps => ~(Issued(a) /\ Issued(b))

\* C1 amended: two fast-path requests with the same fingerprint never have
\* their work promises pending together, a request that joined a work
\* promise issues no upstream call, and both issue upstream calls only when
\* the work promise of one of them was rejected with an error that is not
\* recoverable.
C1_Coalescing ==
  \A a, b \in Req :
    SameFastFingerprint(a, b) =>
      /\ ~(work[a].state = "pending" /\ work[b].state = "pending")
      /\ (Did(trace[a], "joined") => ~Issued(a))
      /\ (Issued(a) /\ Issued(b) => FailedForGood(a) \/ FailedForGood(b))

\* Two overlapping fast-path requests, the second answered from the work
\* promise of the first without an upstream call of its own.
C1_Witness ==
  \E a, b \in Req :
    /\ SameFastFingerprint(a, b) /\ a \in req[b].overlaps
    /\ Did(trace[b], "joined") /\ resp[b].t = "ok" /\ req[b].joined = a
    /\ Issued(a) /\ ~Issued(b)


\* C2: a request made after a request with the same fingerprint was
\* answered ok with cached:false (wordsPending or not) issues no upstream
\* call and is answered ok with cached:true.
C2_HitAfterFreshAnswer ==
  \A r \in Req :
    req[r].afterFresh =>
      /\ ~Issued(r)
      /\ (resp[r].t # "none" => resp[r].t = "ok" /\ resp[r].cached)


\* C3: the response a cache hit returns is, field for field, the response
\* of the last save completed for that key.
C3_HitReturnsLastSaved ==
  \A c \in Cli :
    store.cli[c].op = "get" /\ store.cli[c].pc = "idle" /\ store.cli[c].got.found =>
      store.cli[c].got = store.cli[c].lastSaved


PipelineEvents ==
  {"cache_lookup", "joined", "upstream", "inflight_set", "inflight_delete", "save_get",
   "save_set", "resolved", "rejected", "deferred_start", "deferred_upstream",
   "deferred_unparsed", "deferred_cache_get", "deferred_cache_set"}

\* C4: a request whose trimmed selection is longer than HARD_MAX_CHARS
\* makes no upstream call, no cache read or write and no change to the
\* in-flight registry, starts no work promise and no deferred pass, and
\* its only answer is the failure SELECTION_TOO_LONG.
C4_TooLongRejectedFirst ==
  \A r \in Req :
    Began(r) /\ LenOf(SelectedText(r)) > HARD_MAX_CHARS =>
      /\ \A e \in PipelineEvents : ~Did(trace[r], e)
      /\ \A k \in AllKeys : inflight[k] # r
      /\ work[r].state = "none" /\ def[r].pc = "none" /\ pushes[r] = <<>>
      /\ req[r].pc \in {"getSettings", "done"}
      /\ (req[r].pc = "done" <=> resp[r].t = "fail")
      /\ (resp[r].t # "none" => resp[r].t = "fail" /\ resp[r].code = "SELECTION_TOO_LONG")

\* A request of 12001 characters answered with the failure while the
\* cache held an entry (a lookup would have hit or missed).
C4_Witness ==
  \E r \in Req :
    /\ LenOf(SelectedText(r)) > HARD_MAX_CHARS
    /\ resp[r].t = "fail" /\ resp[r].code = "SELECTION_TOO_LONG"
    /\ \E k \in AllKeys : cache[k].present

\* C5: a selection of exactly HARD_MAX_CHARS characters is never rejected
\* by validation and has made its cache lookup by the time it is past the
\* client id; a selection of HARD_MAX_CHARS + 1 characters is answered with
\* the message that cites 12001 and 12000.
C5_Boundary ==
  \A r \in Req :
    /\ Began(r) /\ LenOf(SelectedText(r)) = HARD_MAX_CHARS =>
         /\ resp[r].code \notin {"SELECTION_TOO_LONG", "NO_SELECTION"}
         /\ (req[r].pc \notin {"getSettings", "saveSettings", "digest"}
               => Did(trace[r], "cache_lookup"))
    /\ Began(r) /\ LenOf(SelectedText(r)) = HARD_MAX_CHARS + 1 /\ req[r].pc = "done" =>
         /\ resp[r].t = "fail"
         /\ resp[r].error = [text |-> "SELECTION_TOO_LONG", actual |-> 12001, max |-> 12000]

\* Both sides of the boundary: a 12000-character request answered ok
\* after its lookup, and a 12001-character request rejected.
C5_Witness ==
  \E a, b \in Req :
    /\ LenOf(SelectedText(a)) = HARD_MAX_CHARS /\ Did(trace[a], "cache_lookup")
    /\ resp[a].t = "ok"
    /\ LenOf(SelectedText(b)) = HARD_MAX_CHARS + 1 /\ resp[b].error.actual = 12001
    /\ resp[b].error.max = 12000


WordsPendingToTab(r) == resp[r].t = "ok" /\ resp[r].wordsPending /\ TabId(r) # NoTab

WellFormedPush(r, push) ==
  /\ push.requestId = resp[r].requestId
  /\ push.hasResult <=> push.error = ""
  /\ push.hasResult => push.result # NoResult

\* C6: a request answered wordsPending:true to a caller with a tab is
\* eventually followed by a words-update with its request id, carrying a
\* result or an error string, and never by a second one; a request that
\* is not answered, or answered wordsPending:false, has no words-update.
C6_ExactlyOneWordsUpdate ==
  /\ [](\A r \in Req :
          /\ Len(pushes[r]) <= 1
          /\ \A i \in 1..Len(pushes[r]) : WellFormedPush(r, pushes[r][i])
          /\ ~WordsPendingToTab(r) => pushes[r] = <<>>)
  /\ \A r \in Req : WordsPendingToTab(r) ~> (Len(pushes[r]) = 1 /\ def[r].pc = "done")

\* A deferred pass has pushed its result to the tab while another
\* request was answered without pending words and has no push.
C6_Witness ==
  \E r \in Req :
    /\ WordsPendingToTab(r) /\ Len(pushes[r]) = 1 /\ pushes[r][1].hasResult
    /\ \E x \in Req : resp[x].t = "ok" /\ ~resp[x].wordsPending /\ pushes[x] = <<>>


Before(log, a, b) == \E i, j \in 1..Len(log) : i < j /\ log[i] = a /\ log[j] = b

DeferredCompletions ==
  {"deferred_unparsed", "deferred_cache_get", "deferred_cache_set", "deferred_saved",
   "deferred_failed"}

\* C7 as stated: the upstream call of the deferred pass of a request is
\* issued only after the request's work promise has resolved.
C7_DeferredCallAfterResolve ==
  \A r \in Req :
    Did(trace[r], "deferred_upstream") => Before(trace[r], "resolved", "deferred_upstream")

\* C7: the deferred pass of a request starts after the request's primary
\* upstream calls, when none of them is outstanding, and issues its upstream
\* call in the step that then resolves the work promise and answers
\* ok:true, wordsPending:true; everything the pass does after that call
\* comes after the response.
C7_DeferredAfterPrimaryResult ==
  \A r \in Req :
    /\ Did(trace[r], "deferred_start") <=> def[r].pc # "none"
    /\ def[r].pc # "none" =>
         /\ Before(trace[r], "upstream", "deferred_start")
         /\ Before(trace[r], "deferred_start", "deferred_upstream")
         /\ Before(trace[r], "deferred_upstream", "resolved")
         /\ Before(trace[r], "resolved", "responded")
         /\ \A e \in DeferredCompletions :
              Did(trace[r], e) => Before(trace[r], "responded", e)
         /\ req[r].pc = "done" /\ work[r].state = "resolved"
         /\ resp[r].t = "ok" /\ resp[r].wordsPending

\* A deferred pass that ran to its cache write after the response.
C7_Witness ==
  \E r \in Req :
    /\ def[r].pc = "done" /\ Did(trace[r], "deferred_saved")
    /\ Before(trace[r], "deferred_upstream", "resolved")


DeferredFailed(r) == Did(trace[r], "deferred_failed") \/ Did(trace[r], "deferred_unparsed")

PrimaryStays(r) ==
  /\ resp[r].t = "ok" /\ resp[r].wordsPending /\ ~resp[r].cached
  /\ hasText(resp[r].result.simple_explanation)

OnlyUnusableAnswers(r) ==
  /\ Valid(r) /\ req[r].pc = "done" /\ Issued(r)
  /\ ~Did(trace[r], "answer_other")

C10_ExplanationNeverEmpty ==
  \A r \in Req :
    /\ resp[r].t = "ok" => hasText(resp[r].result.simple_explanation)
    /\ \A i \in 1..Len(pushes[r]) :
         pushes[r][i].hasResult => hasText(pushes[r][i].result.simple_explanation)

\* A fresh answer whose model output had no explanation and was filled,
\* next to a cached answer, with a words-update delivered.
C10_Witness ==
  \E a, b \in Req :
    /\ resp[a].t = "ok" /\ ~resp[a].cached
    /\ resp[a].result.simple_explanation.kind = "fallback"
    /\ resp[b].t = "ok" /\ resp[b].cached
    /\ \E r \in Req : Len(pushes[r]) = 1 /\ pushes[r][1].hasResult


WellFormedEntry(item) ==
  /\ item.cefr \in {"B2", "C1", "C2"}
  /\ item.definition_simple.kind # "none"
  /\ item.example_simple.kind # "none"
  /\ item.word = WordGood.word

WellFormedWords(result) ==
  \A i \in 1..Len(result.a2_plus_words) : WellFormedEntry(result.a2_plus_words[i])

\* C11: every vocabulary entry of a result in an ok:true response or in a
\* words-update has level B2, C1 or C2 and a definition and an example
\* with text; the entries of the model output that lack a level above B1,
\* a definition or a word are not in it.
C11_OnlyB2PlusEntries ==
  \A r \in Req :
    /\ resp[r].t = "ok" => WellFormedWords(resp[r].result)
    /\ \A i \in 1..Len(pushes[r]) : pushes[r][i].hasResult => WellFormedWords(pushes[r][i].result)

\* A words-update and a later cached response that carry an entry, from a
\* model output that also held an entry below B2.
C11_Witness ==
  \E a, b \in Req :
    /\ Len(pushes[a]) = 1 /\ pushes[a][1].hasResult
    /\ Len(pushes[a][1].result.a2_plus_words) = 1
    /\ resp[b].t = "ok" /\ resp[b].cached /\ Len(resp[b].result.a2_plus_words) = 1


\* C12: the output of enforceEasyLanguage satisfies isSimpleEnough, for
\* every input result and every selection.
C12_OutputIsSimpleEnough ==
  fn.op = "enforceEasyLanguage" /\ fn.done => isSimpleEnough(fn.out).isValid


\* The explanation is the selection repeated: a copy that holds the same
\* words as the selection (a replacement of a table word would change it).
IdenticalToSource(explanation, selectedText) ==
  /\ explanation.kind = "copy"
  /\ explanation.hard = SelInfo[selectedText].hard

\* C13: no ok:true response and no words-update carries an explanation
\* identical to the request's selection.
C13_NeverACopy ==
  \A r \in Req :
    /\ resp[r].t = "ok" =>
         ~IdenticalToSource(resp[r].result.simple_explanation, SelectedText(r))
    /\ \A i \in 1..Len(pushes[r]) :
         pushes[r][i].hasResult =>
           ~IdenticalToSource(pushes[r][i].result.simple_explanation, SelectedText(r))


Retriable(status) == status = 429 \/ status >= 500

\* C14: withExponentialBackoff under the cap of 3 calls the action at
\* most three times, attempts 1, 2, 3 in order; when the first three
\* answers are 429 or 5xx its outcome is the error of the third answer,
\* whatever a fourth or fifth attempt would have been answered.
C14_AtMostThreeAttempts ==
  fn.op = "withExponentialBackoff" =>
    /\ Len(fn.calls) <= 3
    /\ \A i \in 1..Len(fn.calls) : fn.calls[i] = i
    /\ (\A i \in 1..3 : Retriable(fn.plan[i])) /\ fn.pc = "done" =>
         /\ Len(fn.calls) = 3
         /\ ~fn.returned.ok
         /\ fn.thrown.code = "PROXY_RETRYABLE" /\ fn.thrown.status = fn.plan[3]

\* Four retriable failures with a success planned for the fifth attempt:
\* the call has ended after three attempts.
C14_Witness ==
  /\ fn.op = "withExponentialBackoff" /\ fn.pc = "done"
  /\ \A i \in 1..4 : Retriable(fn.plan[i])
  /\ fn.plan[5] = 200
  /\ Len(fn.calls) = 3 /\ fn.thrown.code = "PROXY_RETRYABLE"

\* The place of a stage in one pass through the ladder: a pass goes through
\* its stages in this order and takes none twice.
StageRank(stage) ==
  CASE stage = "single" -> 1 [] stage = "base" -> 1 [] stage = "noschema" -> 2
    [] stage = "larger" -> 3 [] stage = "repair" -> 4 [] stage = "expanded" -> 5
    [] stage = "expandedRepair" -> 6

\* C15: callModelForEasyRead terminates whatever the model answers: every
\* recursive entry has the attemptCount of the entry before it plus one,
\* upstream calls are issued only with attemptCount 1 or 2, the calls of
\* one attemptCount go through the ladder's stages in order without taking
\* one twice (so at most twelve calls are issued), and an entry with
\* attemptCount 3 returns the local fallback with the "stopped" note
\* without a call.
C15_LadderTerminates ==
  fn.op = "callModelForEasyRead" =>
    /\ \A i \in DOMAIN fn.entered : fn.entered[i] = i
    /\ \A i \in DOMAIN fn.calls :
         /\ fn.calls[i].attemptCount \in 1..MAX_EXPLAIN_ATTEMPTS
         /\ fn.calls[i].attemptCount \in {fn.entered[j] : j \in DOMAIN fn.entered}
    /\ \A i, j \in DOMAIN fn.calls :
         i < j =>
           \/ fn.calls[i].attemptCount < fn.calls[j].attemptCount
           \/ /\ fn.calls[i].attemptCount = fn.calls[j].attemptCount
              /\ StageRank(fn.calls[i].stage) < StageRank(fn.calls[j].stage)
    /\ Len(fn.calls) <= 6 * MAX_EXPLAIN_ATTEMPTS
    /\ Len(fn.entered) <= MAX_EXPLAIN_ATTEMPTS + 1
    /\ Len(fn.entered) > MAX_EXPLAIN_ATTEMPTS =>
         /\ fn.step.t = "ret"
         /\ StoppedResult(fn.selectedText, fn.step.parsed)

\* A third entry, after two passes that issued upstream calls, returned
\* the local fallback.
C15_Witness ==
  /\ fn.op = "callModelForEasyRead"
  /\ fn.entered = <<1, 2, 3>>
  /\ fn.step.t = "ret"
  /\ StoppedResult(fn.selectedText, fn.step.parsed)
  /\ \E i \in DOMAIN fn.calls : fn.calls[i].attemptCount = 2

\* C16: a request that awaited the work promise of another request is
\* answered as that request is: when the work promise resolved, both ok
\* with the same result and the same wordsPending; when it was rejected,
\* both ok with a fallback result or both with a failure.
C16_JoinersSeeSameOutcome ==
  \A o, j \in Req :
    (req[j].joined = o /\ resp[j].t # "none" /\ resp[o].t # "none") =>
      IF work[o].state = "resolved"
      THEN /\ resp[j].t = "ok" /\ resp[o].t = "ok"
           /\ resp[j].result = resp[o].result
           /\ resp[j].wordsPending = resp[o].wordsPending
      ELSE resp[j].t = resp[o].t

\* An explain request that has started and has neither returned nor thrown.
InProgress(r) == req[r].pc \notin {"idle", "done"}

\* C17: the registry holds an entry for a key only while the request that
\* registered it is in progress, that request's own key, set by it; a
\* fast-path work promise that is pending is registered; and when no
\* explain request is in progress the registry is empty.
C17_RegistryOnlyWhileRegistrantRuns ==
  /\ \A k \in AllKeys :
       inflight[k] # 0 =>
         /\ InProgress(inflight[k])
         /\ req[inflight[k]].cacheKey = k
         /\ Did(trace[inflight[k]], "inflight_set")
         /\ ~Did(trace[inflight[k]], "inflight_delete")
  /\ \A r \in Req :
       (InProgress(r) /\ IsFastSingleCallPath(r) /\ work[r].state = "pending") =>
         inflight[req[r].cacheKey] = r
  /\ (\A r \in Req : ~InProgress(r)) => \A k \in AllKeys : inflight[k] = 0

\* Every request has settled; one of them registered its work promise,
\* another awaited it, and the first saw it resolve or reject.
C17_Witness ==
  /\ \A r \in Req : req[r].pc = "done"
  /\ \E o, j \in Req :
       /\ req[j].joined = o
       /\ Did(trace[o], "inflight_set") /\ Did(trace[o], "inflight_delete")
       /\ work[o].state \in {"resolved", "rejected"}
  /\ \A k \in AllKeys : inflight[k] = 0

\* A result as the computing paths hand it to saveCachedResponse: a local
\* fallback, or a result that enforceEasyLanguage and keepB2PlusWords have
\* been through (they leave it as it is) and that has an explanation.
FinalResult(result, selectedText) ==
  \/ result = buildLocalFallbackResult(selectedText, <<"fallback_raw">>)
  \/ /\ hasText(result.simple_explanation)
     /\ enforceEasyLanguage(result, selectedText).simple_explanation = result.simple_explanation
     /\ enforceEasyLanguage(result, selectedText).a2_plus_words = result.a2_plus_words
     /\ keepB2PlusWords(result.a2_plus_words) = result.a2_plus_words
     /\ IsNumber(result.confidence)

\* C18: a step in which a request's saveCachedResponse writes the cache
\* writes, for the request's key, the result its work promise computed or
\* the recovery's fallback, and no upstream call of the request is pending;
\* a step in which a deferred pass writes the cache writes its final result
\* after the request's work promise has resolved; and every entry the cache
\* holds after a step is a final result for its own selection.
C18_CacheWritesAreFinal ==
  [][ /\ \A r \in Req :
           (req[r].pc = "saveSet" /\ req'[r].pc # "saveSet" /\ cache' = req[r].newMap) =>
             /\ cache'[req[r].cacheKey].present
             /\ cache'[req[r].cacheKey].response = req[r].result
             /\ FinalResult(req[r].result, SelectedText(r))
             /\ Did(trace[r], "upstream")
             /\ IF req[r].recovering THEN work[r].state = "rejected"
                ELSE work[r].state = "pending" /\ def[r].pc = "none"
      /\ \A r \in Req :
           (def[r].pc = "saveSet" /\ def'[r].pc # "saveSet" /\ cache' = def[r].newMap) =>
             /\ cache'[req[r].cacheKey].present
             /\ cache'[req[r].cacheKey].response = def[r].finalResult
             /\ FinalResult(def[r].finalResult, SelectedText(r))
             /\ req[r].pc = "done" /\ work[r].state = "resolved"
             /\ Did(trace[r], "deferred_upstream")
      /\ \A r \in Req : req[r].pc = "up" => def[r].pc = "none" /\ ~req[r].recovering
      /\ \A k \in AllKeys :
           cache'[k].present => FinalResult(cache'[k].response, cache'[k].request.selectedText)
    ]_vars

\* The cache holds the final result of a deferred pass for one key and the
\* result of a request's own write for another.
C18_Witness ==
  \E a, b \in Req :
    /\ a # b
    /\ Did(trace[a], "deferred_saved") /\ cache[req[a].cacheKey].present
    /\ Len(cache[req[a].cacheKey].response.a2_plus_words) > 0
    /\ Did(trace[b], "save_set") /\ req[b].pc = "done" /\ resp[b].t = "ok"
    /\ cache[req[b].cacheKey].present
    /\ cache[req[b].cacheKey].response = resp[b].result

\* The words of a text: its maximal runs of characters that are not
\* whitespace, in order.
RECURSIVE WordsOf(_, _)
WordsOf(text, word) ==
  IF text = <<>> THEN (IF word = <<>> THEN <<>> ELSE <<word>>)
  ELSE IF IsWhitespace(Head(text))
  THEN (IF word = <<>> THEN <<>> ELSE <<word>>) \o WordsOf(Tail(text), <<>>)
  ELSE WordsOf(Tail(text), Append(word, Head(text)))

RECURSIVE WordsOfAll(_)
WordsOfAll(chunks) ==
  IF chunks = <<>> THEN <<>> ELSE WordsOf(Head(chunks), <<>>) \o WordsOfAll(Tail(chunks))

\* C20: the chunks splitTextIntoChunks returns, joined with single spaces,
\* are the words of the text joined with single spaces; the words of the
\* chunks, chunk after chunk, are the words of the text, each once and in
\* order; and no chunk is empty.
C20_ChunksJoinToNormalizedText ==
  (fn.op = "splitTextIntoChunks" /\ fn.pc = "done") =>
    /\ JoinWithSpace(fn.chunks) = JoinWithSpace(WordsOf(fn.text, <<>>))
    /\ WordsOfAll(fn.chunks) = WordsOf(fn.text, <<>>)
    /\ \A c \in DOMAIN fn.chunks : fn.chunks[c] # <<>>

\* A text with a run of whitespace and three words was split with the
\* chunk count at its maximum and the last chunk holding the remaining words.
C20_Witness ==
  /\ fn.op = "splitTextIntoChunks" /\ fn.pc = "done"
  /\ Len(fn.words) = 3
  /\ fn.text # JoinWithSpace(fn.words)
  /\ fn.maxChunks = 2 /\ Len(fn.chunks) = 2
  /\ Len(WordsOf(fn.chunks[2], <<>>)) = 2

\* C19: every upstream call that the primary pipeline of a request for an
\* accepted selection of more than CHUNK_THRESHOLD_CHARS characters has
\* pending was issued by analyzeLongSelection, for one chunk of
\* splitTextIntoChunks.
C19_LongSelectionsAreChunked ==
  \A r \in Req :
    (Valid(r) /\ LenOf(SelectedText(r)) > CHUNK_THRESHOLD_CHARS /\ req[r].pc = "up") =>
      AnalysisOf(req[r].loc.stage) = "analyzeLongSelection"

StartedItems == {fn.events[i][2] : i \in {j \in DOMAIN fn.events : fn.events[j][1] = "start"}}
SettledItems ==
  {fn.events[i][2] : i \in {j \in DOMAIN fn.events : fn.events[j][1] \in {"end", "throw"}}}

\* C22: with limit MAX_CHUNK_CONCURRENCY at most 2 mapper calls are in
\* progress at any moment, the call for item k >= 3 has started only if
\* the call of an earlier item has settled, and the items are started in
\* order, each once.
C22_AtMostTwoInProgress ==
  (fn.op = "mapWithConcurrency" /\ fn.limit = MAX_CHUNK_CONCURRENCY) =>
    /\ Cardinality(StartedItems \ SettledItems) <= MAX_CHUNK_CONCURRENCY
    /\ \A k \in StartedItems : k >= 3 => \E j \in SettledItems : j < k
    /\ StartedItems = 1..fn.nextIndex
    /\ \A i, j \in DOMAIN fn.events :
         (i < j /\ fn.events[i][1] = "start" /\ fn.events[j][1] = "start") =>
           fn.events[i][2] < fn.events[j][2]

\* Four chunks with limit 2: the call of item 4 is in progress together
\* with the call of item 1, the calls of items 2 and 3 having settled.
C22_Witness ==
  /\ fn.op = "mapWithConcurrency" /\ fn.limit = MAX_CHUNK_CONCURRENCY /\ fn.length = 4
  /\ StartedItems \ SettledItems = {1, 4}
  /\ fn.settled = "pending"

\* C23: a selection of at most MODEL_NANO_MAX_CHARS characters is routed
\* to gpt-5-nano and a longer one to gpt-5-mini, so of two selections the
\* longer is never routed to gpt-5-nano while the shorter is routed to
\* gpt-5-mini.
C23_ModelByLengthAlone ==
  fn.op = "chooseModelForText" =>
    /\ \A i \in 1..2 :
         fn.model[i] # "" =>
           fn.model[i] = (IF fn.length[i] <= 1200 THEN "gpt-5-nano" ELSE "gpt-5-mini")
    /\ \A i, j \in 1..2 :
         (fn.model[i] # "" /\ fn.model[j] # "" /\ fn.length[i] > fn.length[j]) =>
           ~(fn.model[i] = "gpt-5-nano" /\ fn.model[j] = "gpt-5-mini")

\* Selections of 1200 and 1201 characters, routed to different models.
C23_Witness ==
  /\ fn.op = "chooseModelForText"
  /\ fn.length = <<1200, 1201>>
  /\ fn.model = <<"gpt-5-nano", "gpt-5-mini">>

\* C24: a getCachedResponse call that returns a response returns that of
\* an entry the map holds whose expiresAt is not earlier than the current
\* time and that was created at most CACHE_TTL_MS before; a call that finds
\* an entry with an earlier expiresAt returns null; and every entry in the
\* map has expiresAt = createdAt + CACHE_TTL_MS.
C24_HitsAreWithinTtl ==
  [][ /\ \A c \in Cli :
           (store.cli[c].pc = "get" /\ store'.cli[c].pc = "idle") =>
             LET entry == cache[store.cli[c].key]
                 got == store'.cli[c].got
             IN /\ got.found =>
                     /\ entry.present /\ got.response = entry.response
                     /\ entry.expiresAt >= now
                     /\ now - entry.createdAt <= 7 * 24 * 60 * 60 * 1000
                /\ (entry.present /\ entry.expiresAt < now) => ~got.found
      /\ \A k \in AllKeys :
           cache'[k].present => cache'[k].expiresAt = cache'[k].createdAt + CACHE_TTL_MS
    ]_vars

\* A lookup one millisecond after the expiry of an entry that the map still
\* holds has returned null.
C24_Witness ==
  /\ fn.op = "clock"
  /\ store.cli[1].op = "get" /\ store.cli[1].pc = "idle" /\ ~store.cli[1].got.found
  /\ cache[store.cli[1].key].present
  /\ cache[store.cli[1].key].expiresAt = now - 1

\* A step in which the content script handles a words-update message.
HandlesUpdate == fn.op = "content" /\ fn'.updates = fn.updates + 1

ModelNamed(request) == TrimmedString(request.body.payload.model)
Forwarding(c) == fn.op = "explain" /\ fn.conn[c].calls > 0

\* C26 as stated: the proxy never forwards an /api/explain payload
\* whose model is outside the allow-listed set; a request naming such
\* a model is answered with HTTP 400 and no provider call is made.
C26_OutsideModelGets400 ==
  fn.op = "explain" =>
    \A c \in Conn :
      /\ Forwarding(c) => fn.conn[c].forwarded.model.text \in ALLOWED_MODELS
      /\ (fn.conn[c].pc = "done" /\ ModelNamed(fn.conn[c].request) \notin ALLOWED_MODELS) =>
           fn.conn[c].status = 400 /\ fn.conn[c].calls = 0

\* C26 amended: every forwarded payload names an allow-listed model; a
\* request naming a model outside the set causes no provider call and is
\* answered 403 when its extension is not allowed, else 429 when the
\* rate limit rejects it, else 400.
C26_OutsideModelNeverForwarded ==
  fn.op = "explain" =>
    \A c \in Conn :
      LET conn == fn.conn[c]
      IN /\ Forwarding(c) =>
              /\ conn.forwarded.model.text \in ALLOWED_MODELS
              /\ conn.forwarded.model.pad = 0
         /\ (conn.pc # "idle" /\ ModelNamed(conn.request) \notin ALLOWED_MODELS) =>
              /\ conn.calls = 0 /\ conn.forwarded = NoPayload
              /\ conn.pc \in {"body", "done"}
              /\ conn.pc = "done" =>
                   IF ~isAllowedExtension(fn.config, conn.request) THEN conn.status = 403
                   ELSE conn.status \in {429, 400}

\* A request of an allowed extension that names gpt-4o has passed the
\* rate limit and been answered 400, while another exchange was
\* forwarded to the provider.
C26_Witness ==
  /\ fn.op = "explain"
  /\ \E c \in Conn :
       /\ fn.conn[c].pc = "done" /\ fn.conn[c].status = 400
       /\ fn.conn[c].request.body.payload.model = JsString("gpt-4o", 0)
       /\ isAllowedExtension(fn.config, fn.conn[c].request)
  /\ \E c \in Conn : Forwarding(c)

InTokenRange(value) == value.type = "number" /\ 640 <= value.tenths /\ value.tenths <= 20000

\* C27 as stated: for every /api/explain request that specifies a
\* max_output_tokens value, the forwarded payload has max_output_tokens
\* within [64, 2000]; values below 64 become 64, values above 2000
\* become 2000.
C27_ForwardedTokensInRange ==
  \A c \in Conn :
    (Forwarding(c) /\ fn.conn[c].request.body.payload.max_output_tokens.type
                        \notin {"undefined", "null"}) =>
      LET asked == fn.conn[c].request.body.payload.max_output_tokens
          sent == fn.conn[c].forwarded.max_output_tokens
      IN /\ InTokenRange(sent)
         /\ (asked.type = "number" /\ asked.tenths < 640) => sent.tenths = 640
         /\ (asked.type = "number" /\ asked.tenths > 20000) => sent.tenths = 20000

\* C27 amended: a max_output_tokens that is a number is forwarded
\* rounded down and clamped into [64, 2000]; one that is not a number is
\* forwarded as it came.
C27_NumericTokensAreClamped ==
  \A c \in Conn :
    Forwarding(c) =>
      LET asked == fn.conn[c].request.body.payload.max_output_tokens
          sent == fn.conn[c].forwarded.max_output_tokens
      IN IF asked.type # "number" THEN sent = asked
         ELSE /\ InTokenRange(sent)
              /\ asked.tenths < 640 => sent.tenths = 640
              /\ asked.tenths > 20000 => sent.tenths = 20000
              /\ (640 <= asked.tenths /\ asked.tenths <= 20000) =>
                   sent.tenths = 10 * Floor(asked.tenths)

\* Payloads asking for 2000.5 tokens and for -0.5 tokens were forwarded
\* with 2000 and with 64.
C27_Witness ==
  /\ \E c \in Conn :
       /\ Forwarding(c)
       /\ fn.conn[c].request.body.payload.max_output_tokens = JsNumber(20005)
       /\ fn.conn[c].forwarded.max_output_tokens = JsNumber(20000)
  /\ \E c \in Conn :
       /\ Forwarding(c)
       /\ fn.conn[c].request.body.payload.max_output_tokens = JsNumber(0 - 5)
       /\ fn.conn[c].forwarded.max_output_tokens = JsNumber(640)

Admitted(key) == {i \in DOMAIN fn.log : fn.log[i].key = key}

\* C28 as stated: the per-window limit is a rolling window; for every
\* key, any time interval of length rateWindowMs holds at most
\* rateWindowMax admitted requests.
C28_RollingWindow ==
  fn.op = "rate" =>
    \A key \in RateKeys : \A i \in Admitted(key) :
      Cardinality({j \in Admitted(key) :
                     /\ fn.log[j].at <= fn.log[i].at
                     /\ fn.log[i].at - fn.log[j].at < fn.config.rateWindowMs})
        <= fn.config.rateWindowMax

\* C28 amended: the limit is a fixed window opened by the first request
\* at or after the end of the one before; a window [windowResetAt -
\* rateWindowMs, windowResetAt) admits at most rateWindowMax requests of
\* a key, so an interval of length rateWindowMs that spans two windows
\* holds at most 2 * rateWindowMax.
C28_FixedWindow ==
  fn.op = "rate" =>
    \A key \in RateKeys : \A i \in Admitted(key) :
      /\ fn.log[i].windowResetAt - fn.config.rateWindowMs <= fn.log[i].at
      /\ fn.log[i].at < fn.log[i].windowResetAt
      /\ Cardinality({j \in Admitted(key) : fn.log[j].windowResetAt = fn.log[i].windowResetAt})
           <= fn.config.rateWindowMax
      /\ Cardinality({j \in Admitted(key) :
                        /\ fn.log[j].at <= fn.log[i].at
                        /\ fn.log[i].at - fn.log[j].at < fn.config.rateWindowMs})
           <= 2 * fn.config.rateWindowMax

\* A key has filled one window, been admitted again in a later window
\* and had a request rejected.
C28_Witness ==
  /\ fn.op = "rate" /\ ~fn.last.ok
  /\ \E i, j \in Admitted(fn.last.key) :
       /\ fn.log[i].windowResetAt < fn.log[j].windowResetAt
       /\ Cardinality({k \in Admitted(fn.last.key) :
                         fn.log[k].windowResetAt = fn.log[i].windowResetAt})
            = fn.config.rateWindowMax

CountOf(key, field) == IF fn.rateMap[key].present THEN fn.rateMap[key][field] ELSE 0
Rejects == fn.op = "rate" /\ fn'.arrivals = fn.arrivals + 1 /\ ~fn'.last.ok

\* C29: for every key and every UTC day at most rateDayMax requests are
\* admitted, however many window resets the day holds, and a rejected
\* request increments neither the window count nor the day count.
C29_AtMostDayMaxPerDay ==
  /\ [](fn.op = "rate" =>
          \A key \in RateKeys : \A i \in Admitted(key) :
            Cardinality({j \in Admitted(key) : DayKey(fn.log[j].at) = DayKey(fn.log[i].at)})
              <= fn.config.rateDayMax)
  /\ [][Rejects =>
          /\ fn'.log = fn.log
          /\ \A key \in RateKeys :
               /\ fn'.rateMap[key].windowCount <= CountOf(key, "windowCount")
               /\ fn'.rateMap[key].dayCount <= CountOf(key, "dayCount")]_vars

\* A key was admitted rateDayMax times in one day, in two windows of
\* that day, and then rejected while its current window has room.
C29_Witness ==
  /\ fn.op = "rate" /\ ~fn.last.ok
  /\ CountOf(fn.last.key, "windowCount") < fn.config.rateWindowMax
  /\ CountOf(fn.last.key, "dayCount") = fn.config.rateDayMax
  /\ \E i, j \in Admitted(fn.last.key) :
       /\ fn.log[i].windowResetAt < fn.log[j].windowResetAt
       /\ DayKey(fn.log[i].at) = DayKey(fn.log[j].at)

\* C30: a cache hit for a request with page origin o, text t and mode m
\* returns only a result stored by a request with the same (o, t, m,
\* model, model version).
C30_HitsAreOfTheSameTuple ==
  (fn.op = "key" /\ fn.hit.found) => fn.hit.storedBy = fn.hit.request

Settled(i) == i < fn.attempt \/ (i = fn.attempt /\ fn.pc # "call")
LeadsToRetry(status) == status = 0 \/ status = 429 \/ status >= 500

\* C31: a failure classified PROXY_ERROR (an HTTP status that is not
\* 2xx, 429 or 5xx) ends withExponentialBackoff at once, with no sleep
\* and no further attempt; an attempt after the first and every sleep
\* follow only a network failure or an HTTP 429 or 5xx.
C31_ProxyErrorEndsAtOnce ==
  fn.op = "withExponentialBackoff" =>
    /\ \A i \in 1..Len(fn.calls) :
         (Settled(i) /\ postProxyJson(fn.plan[i]).code = "PROXY_ERROR") =>
           /\ Len(fn.calls) = i /\ fn.pc = "done"
           /\ fn.thrown.code = "PROXY_ERROR" /\ fn.thrown.status = fn.plan[i]
           /\ fn.waitMs = 600 * 2 ^ (i - 1)
    /\ \A i \in 2..Len(fn.calls) : LeadsToRetry(fn.plan[i - 1])
    /\ fn.pc = "sleep" => LeadsToRetry(fn.plan[fn.attempt])

\* A network failure and an HTTP 503 were retried, and the HTTP 400 of
\* the third attempt has ended the call.
C31_Witness ==
  /\ fn.op = "withExponentialBackoff" /\ fn.pc = "done"
  /\ fn.plan[1] = 0 /\ fn.plan[2] = 503 /\ fn.plan[3] = 400
  /\ Len(fn.calls) = 3 /\ fn.thrown.code = "PROXY_ERROR"

\* The posts at which a postResponsesPayload call began.
Resends == {i \in 2..Len(fn.posts) : ~fn.posts[i] /\ fn.posts[i - 1]}

\* C32: requestResponsesApi calls postResponsesPayload with a payload
\* without the schema at most once more, and only when the call used
\* a schema and failed with a PROXY_ERROR whose message matches the
\* schema pattern; every other failure is thrown to the caller, and so
\* is a failure of the re-send.
C32_SchemalessResendOnce ==
  fn.op = "requestResponsesApi" =>
    /\ Cardinality(Resends) <= 1 /\ fn.call = 1 + Cardinality(Resends)
    /\ \A i \in Resends :
         /\ fn.useSchema
         /\ fn.errors[i - 1].easyRead /\ fn.errors[i - 1].code = "PROXY_ERROR"
         /\ fn.errors[i - 1].matches
         /\ \A j \in i..Len(fn.posts) : ~fn.posts[j]
    /\ \A i \in 1..Len(fn.posts) : (i + 1 \notin Resends /\ i \notin Resends /\ i > 1) =>
         fn.posts[i] = fn.posts[i - 1]
    /\ ~fn.useSchema => \A i \in 1..Len(fn.posts) : ~fn.posts[i]
    /\ fn.pc = "done" =>
         /\ fn.returned = (fn.thrown = NoSchemaError)
         /\ ~fn.returned => fn.thrown = fn.errors[Len(fn.errors)]
         /\ Len(fn.posts) <= 2 * BACKOFF_MAX_ATTEMPTS

\* A call with a schema was refused with a schema-related PROXY_ERROR,
\* was sent again without the schema, and the PROXY_ERROR of the re-send,
\* schema-related too, was thrown to the caller without a third call.
C32_Witness ==
  /\ fn.op = "requestResponsesApi" /\ fn.pc = "done" /\ fn.useSchema
  /\ Cardinality(Resends) = 1
  /\ fn.thrown.code = "PROXY_ERROR" /\ fn.thrown.matches

\* The schema-less retry of a ladder.
IsSchemalessRetry(stage) == stage \in {"noschema", "eoNoSchema"}

\* C33: on every primary path, when the output text is still empty
\* after the schema-less retry and the model in use is gpt-5-nano,
\* exactly one further call is made, on gpt-5-mini, before the local
\* fallback is returned.
C33_LargerModelAfterEmptyRetry ==
  fn.op = "primary" =>
    \A i \in DOMAIN fn.answers :
      (IsSchemalessRetry(fn.calls[i].stage) /\ fn.answers[i] = "empty"
         /\ fn.model = MODEL_SHORT_TEXT) =>
        /\ Len(fn.calls) > i
        /\ fn.calls[i + 1].model = MODEL_LONG_TEXT
        /\ (Len(fn.answers) > i /\ fn.answers[i + 1] = "empty") =>
             /\ Len(fn.calls) = i + 1
             /\ fn.step = Ret(buildLocalFallbackResult(fn.selectedText, <<"fallback_raw">>))

\* The key of an entry as the claim names it: the normalized word if it
\* is not empty, else the normalized lemma; an item that is no object
\* has none.
KeyOfEntry(item) ==
  IF ~item.object THEN <<>>
  ELSE IF normalizeWordKey(item.word) = <<>> THEN normalizeWordKey(item.lemma)
  ELSE normalizeWordKey(item.word)
\* The places of all whose entry is the first with its key.
FirstOccurrences(all) ==
  {i \in DOMAIN all : KeyOfEntry(all[i]) # <<>>
                       /\ \A j \in 1..(i - 1) : KeyOfEntry(all[j]) # KeyOfEntry(all[i])}
RECURSIVE IsSubsequence(_, _)
IsSubsequence(part, whole) ==
  IF part = <<>> THEN TRUE
  ELSE IF whole = <<>> THEN FALSE
  ELSE IF Head(part) = Head(whole) THEN IsSubsequence(Tail(part), Tail(whole))
  ELSE IsSubsequence(part, Tail(whole))

\* C34: mergeWordEntries(existing, supplemental) is a subsequence of
\* existing followed by supplemental, no two of its entries share a
\* key, it holds exactly the first entry of every key, in their order,
\* and merging it again with an empty list returns the same list.
C34_MergeKeepsFirstOfEachKey ==
  (fn.op = "mergeWordEntries" /\ fn.pc # "merge") =>
    LET all == fn.existing \o fn.supplemental
    IN /\ IsSubsequence(fn.merged, all)
       /\ \A i, j \in DOMAIN fn.merged :
            i # j => KeyOfEntry(fn.merged[i]) # KeyOfEntry(fn.merged[j])
       /\ Len(fn.merged) = Cardinality(FirstOccurrences(all))
       /\ \A i \in FirstOccurrences(all) :
            fn.merged[Cardinality({j \in FirstOccurrences(all) : j <= i})] = all[i]
       /\ fn.pc = "done" => fn.again = fn.merged

\* "A" of the existing entries and "'a" of the supplemental ones share
\* the key "a": the merge has kept the first and dropped the second, it
\* has kept an entry known by its lemma alone, and merging the result
\* again has been done.
C34_Witness ==
  /\ fn.op = "mergeWordEntries" /\ fn.pc = "done"
  /\ Len(fn.existing) = 2 /\ Len(fn.supplemental) = 1
  /\ fn.existing[1] = WordItem(<<"A">>, <<>>)
  /\ fn.existing[2] = WordItem(<<"'">>, <<"b">>)
  /\ fn.supplemental[1] = WordItem(<<"'", "a">>, <<"b">>)
  /\ fn.merged = fn.existing

\* What the claim gives as the cases of a supplemental pass: at least
\* one candidate, and no entry, or one entry with 10 candidates or more.
UnderExtraction ==
  /\ fn.candidateCount >= 1
  /\ \/ Len(fn.currentWords) = 0
     \/ Len(fn.currentWords) = 1 /\ fn.candidateCount >= 10
Decided == fn.op = "shouldRunSupplementalWordPass" /\ fn.pc = "done"

\* C35 (as stated): shouldRunSupplementalWordPass returns true exactly
\* when there is a candidate and the primary pass left no entry, or
\* one entry with 10 candidates or more.
C35_TrueExactlyOnUnderExtraction ==
  Decided => (fn.needsSupplementalWords <=> UnderExtraction)

\* C35 (amended): it returns true exactly when, in addition, the
\* selection has 40 characters or more.
C35_TrueOnUnderExtractionOfLongEnoughText ==
  Decided => (fn.needsSupplementalWords <=> (UnderExtraction /\ fn.selectedTextLength >= 40))

\* One entry, 10 candidates and a selection of 48 characters: the pass
\* has been asked for.
C35_Witness ==
  /\ Decided
  /\ Len(fn.currentWords) = 1 /\ fn.candidateCount = 10 /\ fn.selectedTextLength = 48
  /\ fn.needsSupplementalWords

\* How many calls of the mapper have been made for item k.
Applications(k) ==
  Cardinality({i \in DOMAIN fn.events : fn.events[i] = <<"start", k>>})
\* No mapper call is in progress and no worker will make another.
PoolAtRest ==
  /\ fn.op = "mapWithConcurrency"
  /\ \A w \in DOMAIN fn.worker : fn.worker[w].pc \in {"done", "failed"}

C37_NoSavedEntryLost ==
  (\A c \in Clr : clr[c] = "idle") =>
    \A k \in StoreKeys : store.lastSaved[k].found => cache[k].present

\* Caller c has been served a hit by a getCachedResponse call made
\* after the clear-cache command arrived, the only storage call made
\* since, and the command has been answered ok:true.
HitAfterClear(c) ==
  /\ fn.op = "clearCache" /\ \A b \in Clr : clr[b] = "done"
  /\ store.ops = fn.store.ops + 1
  /\ store.cli[c].op = "get" /\ store.cli[c].pc = "idle" /\ fn.store.cli[c] = IdleCli
  /\ store.cli[c].got.found
\* The entry of key k that storage held when the command arrived, no
\* save for k being in progress then.
WrittenBeforeClear(k) ==
  /\ fn.cache[k].present
  /\ \A c \in Cli : fn.store.cli[c].op = "save" => fn.store.cli[c].key # k

\* C38: once clear-cache has been answered ok:true, a lookup does not
\* hit an entry that storage held before the command arrived, also
\* when a saveCachedResponse call was in progress while the clear ran.
C38_ClearedEntriesNeverHit ==
  \A c \in Cli :
    (HitAfterClear(c) /\ WrittenBeforeClear(store.cli[c].key)) =>
      store.cli[c].got.response # fn.cache[store.cli[c].key].response

\* C39: the anonymous client id is created at most once: any two
\* explain requests that made an upstream call carried the same client
\* id, also when both started before an id was stored.
C39_OneClientIdForAllCalls ==
  \A r, q \in Req : (Issued(r) /\ Issued(q)) => req[r].clientId = req[q].clientId

\* A step in which the response of a request other than the current
\* one arrives in the content script.
SupersededResponseArrives ==
  /\ fn.op = "content"
  /\ \E id \in fn.pending : id # fn.ui.currentRequestId /\ fn'.pending = fn.pending \ {id}

\* C40: the response of a superseded explain request, a result or an
\* error, leaves the explanation panel, the words panel and
\* state.lastResult as they were.
C40_SupersededOutcomeChangesNothing ==
  [][ SupersededResponseArrives =>
        /\ fn'.ui.explanationPanel = fn.ui.explanationPanel
        /\ fn'.ui.wordsPanel = fn.ui.wordsPanel
        /\ fn'.ui.lastResult = fn.ui.lastResult ]_vars

============================================================================
